---- MODULE Spec2Model ----
(***************************************************************************)
(* The secure tar.gz extractor of krci-cache (package uploader, UntarGz).  *)
(*                                                                         *)
(* Sizes are counted in blocks of 1 GiB, so that MaxFileSize = 2 and       *)
(* MaxTotalSize = 8 stand for 2 GiB and 8 GiB: every size comparison of    *)
(* the code is linear in the sizes it compares.                            *)
(*                                                                         *)
(* A path is a sequence of segments and a segment is a sequence of         *)
(* characters, so that strings.HasPrefix is a prefix test on characters    *)
(* and filepath.Clean is a fold over segments.                             *)
(***************************************************************************)
EXTENDS Integers, Sequences, FiniteSets, TLC

VARIABLES fs, calls

vars == <<fs, calls>>

(***************************************************************************)
(* Program constants                                                       *)
(***************************************************************************)
MaxFileSize == 2

MaxTotalSize == 8

\* os.ModePerm is 0777: masking with it is the remainder modulo 01000
PermModulus == 512

DirDefaultPerm == 493

FileDefaultPerm == 420

\* os.Create opens with mode 0666
CreatePerm == 438

StatusOK == 200

StatusCreated == 201

StatusAccepted == 202

StatusBadRequest == 400

StatusUnauthorized == 401

StatusForbidden == 403

StatusNotFound == 404

StatusMethodNotAllowed == 405

StatusInternalServerError == 500

(***************************************************************************)
(* Bounds of the model                                                     *)
(***************************************************************************)
MaxSize == 3

MaxChunk == 2

\* entries of an archive that is extracted twice
MaxDirEntries == 2

\* content bytes a reader handed to handleRegularFile can deliver
MaxContent == 5

(***************************************************************************)
(* Inputs                                                                  *)
(***************************************************************************)
CallIds == {1, 2}

Bytes == {0, 1}

SegA == <<"a">>

SegB == <<"b">>

SegR == <<"r">>

SegRX == <<"r", "x">>

SegDot == <<".">>

SegUp == <<".", ".">>

SegEmpty == <<>>

\* the destination root of the call, /r; /rx is a sibling whose name has the
\* root's name as a string prefix
Root == <<SegR>>

\* entry names, split at the separator: a, b, /a/b, ., ../rx, a/../../rx/a
Names ==
  { <<SegA>>, <<SegB>>, <<SegEmpty, SegA, SegB>>, <<SegDot>>,
    <<SegUp, SegRX>>, <<SegA, SegUp, SegUp, SegRX, SegA>> }

TypeDir == "dir"

TypeReg == "reg"

TypeSymlink == "symlink"

TypeLink == "link"

TypeFifo == "fifo"

Typeflags == {TypeDir, TypeReg, TypeSymlink, TypeLink, TypeFifo}

\* header modes: 0 and 04700
Modes == {0, 2496}

\* the headers tr.Next can return. The code reads the mode of directories
\* and regular files only, and for the other types the size in the pre-check
\* only: those take mode 0 and the sizes 0 and MaxSize. The mode is handled
\* without regard to the name: the entries named b carry the nonzero mode
Headers ==
  { h \in [name : Names, typeflag : Typeflags, size : 0..MaxSize, mode : Modes] :
      /\ h.mode # 0 => (h.typeflag \in {TypeDir, TypeReg} /\ h.name = <<SegB>>)
      /\ h.typeflag # TypeReg => h.size \in {0, MaxSize} }

Nil == <<>>

(***************************************************************************)
(* Paths                                                                   *)
(***************************************************************************)
RECURSIVE CleanFrom(_, _)
CleanFrom(acc, segs) ==
  IF segs = <<>> THEN acc
  ELSE LET s == Head(segs) IN
    IF s = SegEmpty \/ s = SegDot THEN CleanFrom(acc, Tail(segs))
    ELSE IF s = SegUp
      THEN CleanFrom(IF acc = <<>> THEN acc ELSE SubSeq(acc, 1, Len(acc) - 1), Tail(segs))
      ELSE CleanFrom(Append(acc, s), Tail(segs))

Clean(segs) == CleanFrom(<<>>, segs)

Join(dir, name) == Clean(dir \o name)

Abs(path) == Clean(path)

Dir(path) == IF path = <<>> THEN <<>> ELSE SubSeq(path, 1, Len(path) - 1)

RECURSIVE Str(_)
Str(path) ==
  IF path = <<>> THEN <<"/">>
  ELSE IF Len(path) = 1 THEN <<"/">> \o path[1]
  ELSE Str(Dir(path)) \o <<"/">> \o path[Len(path)]

HasPrefix(s, prefix) ==
  Len(prefix) <= Len(s) /\ SubSeq(s, 1, Len(prefix)) = prefix

isPathSafeNoSeparator(target, dst) ==
  HasPrefix(Str(Abs(target)), Str(dst)) \/ Str(Abs(target)) = Str(dst)

isPathSafe(target, dst) ==
  HasPrefix(Str(Abs(target)), Str(dst) \o <<"/">>) \/ Str(Abs(target)) = Str(dst)

\* containment on segments: p is q or lies below q
Within(p, q) == Len(q) <= Len(p) /\ SubSeq(p, 1, Len(q)) = q

(***************************************************************************)
(* Filesystem: a function from the existing paths to their nodes           *)
(***************************************************************************)
DirNode(perm) == [kind |-> "dir", perm |-> perm, data |-> <<>>]

FileNode(perm, data) == [kind |-> "file", perm |-> perm, data |-> data]

Put(f, p, node) == [q \in DOMAIN f \cup {p} |-> IF q = p THEN node ELSE f[q]]

Del(f, p) == [q \in DOMAIN f \ {p} |-> f[q]]

IsDir(f, p) == p \in DOMAIN f /\ f[p].kind = "dir"

IsFile(f, p) == p \in DOMAIN f /\ f[p].kind = "file"

Children(f, p) == {q \in DOMAIN f : q # p /\ Within(q, p)}

\* os.Mkdir: the parent has to exist
MkdirNoParents(f, p, perm) ==
  IF p \in DOMAIN f
  THEN [ok |-> f[p].kind = "dir", fs |-> f, created |-> {}]
  ELSE IF ~IsDir(f, Dir(p))
    THEN [ok |-> FALSE, fs |-> f, created |-> {}]
    ELSE [ok |-> TRUE, fs |-> Put(f, p, DirNode(perm)), created |-> {p}]

RECURSIVE MkdirAll(_, _, _)
MkdirAll(f, p, perm) ==
  IF p \in DOMAIN f
  THEN [ok |-> f[p].kind = "dir", fs |-> f, created |-> {}]
  ELSE LET par == MkdirAll(f, Dir(p), perm) IN
    IF ~par.ok THEN par
    ELSE [ok |-> TRUE, fs |-> Put(par.fs, p, DirNode(perm)),
          created |-> par.created \cup {p}]

\* os.Stat(p) fails with ENOTDIR: a path strictly above p is a regular file
FileAboveIn(f, p) == \E i \in 0..(Len(p) - 1) : IsFile(f, SubSeq(p, 1, i))

\* os.OpenFile(p, O_CREATE|O_APPEND|O_WRONLY, perm): what the file held stays
OpenFileAppend(f, p, perm) ==
  IF Dir(p) \notin DOMAIN f \/ ~IsDir(f, Dir(p)) \/ IsDir(f, p)
  THEN [ok |-> FALSE, fs |-> f]
  ELSE IF p \in DOMAIN f
    THEN [ok |-> TRUE, fs |-> f]
    ELSE [ok |-> TRUE, fs |-> Put(f, p, FileNode(perm, <<>>))]

\* an open that succeeds on a directory and turns it into an empty file
OpenFileOverDirectory(f, p, perm) ==
  IF Dir(p) \notin DOMAIN f \/ ~IsDir(f, Dir(p))
  THEN [ok |-> FALSE, fs |-> f]
  ELSE IF p \in DOMAIN f
    THEN [ok |-> TRUE, fs |-> Put(f, p, FileNode(f[p].perm, <<>>))]
    ELSE [ok |-> TRUE, fs |-> Put(f, p, FileNode(perm, <<>>))]

\* os.OpenFile(p, O_CREATE|O_TRUNC|O_WRONLY, perm)
OpenFile(f, p, perm) ==
  IF Dir(p) \notin DOMAIN f \/ ~IsDir(f, Dir(p)) \/ IsDir(f, p)
  THEN [ok |-> FALSE, fs |-> f]
  ELSE IF p \in DOMAIN f
    THEN [ok |-> TRUE, fs |-> Put(f, p, FileNode(f[p].perm, <<>>))]
    ELSE [ok |-> TRUE, fs |-> Put(f, p, FileNode(perm, <<>>))]

osRemoveNothing(f, p) == f

\* a removal that spares a file that holds bytes
osRemoveEmptyOnly(f, p) ==
  IF p \in DOMAIN f /\ f[p].kind = "file" /\ f[p].data = <<>> THEN Del(f, p) ELSE f

osRemoveAllDir(f, p) ==
  [q \in {x \in DOMAIN f : ~Within(x, Dir(p)) \/ x = Dir(p)} |-> f[q]]

\* os.Remove(p): a file, or an empty directory
osRemove(f, p) ==
  IF p \in DOMAIN f /\ (f[p].kind = "file" \/ Children(f, p) = {})
  THEN Del(f, p) ELSE f


\* the bytes of a file after a write of bytes at offset off: a gap between the
\* end of the file and the offset reads as zeros
WriteAt(data, off, bytes) ==
  IF bytes = <<>> THEN data
  ELSE LET end == off + Len(bytes)
           n == IF Len(data) > end THEN Len(data) ELSE end
       IN [i \in 1..n |->
             IF i > off /\ i <= end THEN bytes[i - off]
             ELSE IF i <= Len(data) THEN data[i]
             ELSE 0]

\* f.Write(p[1..k]) on the open target, at the offset of the descriptor; a
\* write to a file that has been unlinked meanwhile shows at no path
WriteData(f, p, off, bytes) ==
  IF IsFile(f, p) THEN Put(f, p, FileNode(f[p].perm, WriteAt(f[p].data, off, bytes))) ELSE f

(***************************************************************************)
(* One extraction call                                                     *)
(***************************************************************************)
NoHdr == [name |-> <<>>, typeflag |-> "none", size |-> 0, mode |-> 0]

NoWrite == [total |-> 0, written |-> 0, len |-> 0, passed |-> 0, rejected |-> FALSE]

NoFiles == [p \in {} |-> DirNode(0)]

NoReq ==
  [handler |-> "none", path |-> <<>>, targz |-> "", recursive |-> "", file |-> <<>>,
   days |-> 0, now |-> 0, daysField |-> <<>>]

\* pc: where the call stands; root: absDst; totalWritten, hdr, target, tw: the
\* locals of UntarGz, extractArchive and handleRegularFile; rem: content bytes
\* the tar reader still holds for the entry; err: the error returned.
\* History of the call, read by the properties only: nent (tr.Next calls that
\* returned a record: 0, 1, or 2 for two and more), src (content bytes read
\* for the entry), emut (paths created, truncated, written or removed by the
\* entry), phys (bytes physically written by the call), lastW (the last Write),
\* made (what the completed entries materialized), newdirs (directories the
\* entry created), sawLink (a symlink or hardlink header was read), fs0 (the
\* filesystem when the call began), skipped (the last header read was skipped
\* as an unsupported type), arch (the headers read, kept where the same
\* archive is extracted again), req and status (the HTTP request the call
\* serves and the status of the reply, where the call is made by a handler)
Fresh(root, f) ==
  [pc |-> "start", root |-> root, totalWritten |-> 0, hdr |-> NoHdr,
   target |-> <<>>, tw |-> [currentTotal |-> 0, written |-> 0], rem |-> 0,
   err |-> Nil, nent |-> 0, src |-> <<>>, emut |-> {},
   phys |-> 0, lastW |-> NoWrite, made |-> NoFiles, newdirs |-> {},
   sawLink |-> FALSE, skipped |-> FALSE, arch |-> <<>>,
   req |-> NoReq, status |-> 0, fs0 |-> f, umask |-> 0]

Off == [Fresh(<<>>, NoFiles) EXCEPT !.pc = "off"]

\* an error that is recorded while the loop goes on to the next entry
FailAndContinue(st, err) == [st EXCEPT !.pc = "next", !.err = err]

\* the error is wrapped and returned up to the caller of UntarGz
Fail(st, err) == [st EXCEPT !.pc = "failed", !.err = err]

BaseFS == [p \in {<<>>, Root} |-> DirNode(DirDefaultPerm)]

\* the destination before the call: empty, or holding a file a
InitFS ==
  { BaseFS,
    Put(BaseFS, <<SegR, SegA>>, FileNode(FileDefaultPerm, <<1, 1>>)) }

Init ==
  /\ fs \in InitFS
  /\ calls = [c \in CallIds |-> IF c = 1 THEN Fresh(Root, fs) ELSE Off]

(***************************************************************************)
(* UntarGz, setupExtraction                                                *)
(***************************************************************************)
\* a setup that creates a directory below the destination before it looks at
\* the gzip header
SetupMkdirFirst(c) ==
  /\ calls[c].pc = "start"
  /\ \E gzipOk \in BOOLEAN :
       calls' = [calls EXCEPT ![c] =
         IF gzipOk THEN [@ EXCEPT !.pc = "next"]
         ELSE Fail(@, <<"failed to create gzip reader">>)]
  /\ fs' = MkdirAll(fs, calls[c].root \o <<SegA>>, DirDefaultPerm).fs

\* filepath.Abs(dst) and gzip.NewReader(r), which reads the gzip header
Setup(c) ==
  /\ calls[c].pc = "start"
  /\ \E gzipOk \in BOOLEAN :
       calls' = [calls EXCEPT ![c] =
         IF gzipOk THEN [@ EXCEPT !.pc = "next"]
         ELSE Fail(@, <<"failed to create gzip reader">>)]
  /\ UNCHANGED fs

(***************************************************************************)
(* extractArchive: one iteration up to the call of processEntry            *)
(***************************************************************************)
sizeExceedsTotal(size) == size > MaxTotalSize

sizeExceedsOrEqual(size) == size >= MaxFileSize

\* header.Size > MaxFileSize
sizeExceeds(size) == size > MaxFileSize

\* the record of a header read by tr.Next
Entered(st, hdr) ==
  [st EXCEPT !.hdr = hdr, !.target = Join(st.root, hdr.name), !.nent = IF @ < 2 THEN @ + 1 ELSE @,
             !.emut = {}, !.newdirs = {}, !.src = <<>>, !.rem = 0,
             !.sawLink = @ \/ hdr.typeflag \in {TypeSymlink, TypeLink},
             !.skipped = FALSE]

\* a containment check on the raw name: it rejects a name that begins with ..
checkHeaderRawName(st, hdr) ==
  LET s == Entered(st, hdr)
  IN IF sizeExceeds(hdr.size)
       THEN Fail(s, <<"exceeds maximum size limit">>)
     ELSE IF hdr.name # <<>> /\ Head(hdr.name) = SegUp
       THEN Fail(s, <<"unsafe path detected">>)
     ELSE [s EXCEPT !.pc = "entry"]

\* the containment check of the joined path first, then the size pre-check
checkHeaderPathFirst(st, hdr) ==
  LET s == Entered(st, hdr)
      target == s.target
  IN IF ~isPathSafe(target, s.root)
       THEN Fail(s, <<"unsafe path detected">>)
     ELSE IF sizeExceeds(hdr.size)
       THEN Fail(s, <<"exceeds maximum size limit">>)
     ELSE [s EXCEPT !.pc = "entry"]

\* the size pre-check, then the containment check of the joined path
checkHeader(st, hdr) ==
  LET s == Entered(st, hdr)
      target == s.target
  IN IF sizeExceeds(hdr.size)
       THEN Fail(s, <<"exceeds maximum size limit">>)
     ELSE IF ~isPathSafe(target, s.root)
       THEN Fail(s, <<"unsafe path detected">>)
     ELSE [s EXCEPT !.pc = "entry"]

NextEOF(c) ==
  /\ calls[c].pc = "next"
  /\ calls' = [calls EXCEPT ![c].pc = "done"]
  /\ UNCHANGED fs

NextError(c) ==
  /\ calls[c].pc = "next"
  /\ calls' = [calls EXCEPT ![c] = Fail(@, <<"failed to read tar header">>)]
  /\ UNCHANGED fs

\* a loop that treats a nil header record as an error
NextNilFails(c) ==
  /\ calls[c].pc = "next"
  /\ calls' = [calls EXCEPT ![c] =
       Fail([@ EXCEPT !.nent = IF @ < 2 THEN @ + 1 ELSE @], <<"nil tar header">>)]
  /\ UNCHANGED fs

NextNil(c) ==
  /\ calls[c].pc = "next"
  /\ calls' = [calls EXCEPT ![c].nent = IF @ < 2 THEN @ + 1 ELSE @]
  /\ UNCHANGED fs

NextHeader(c) ==
  /\ calls[c].pc = "next"
  /\ \E hdr \in Headers : calls' = [calls EXCEPT ![c] = checkHeader(@, hdr)]
  /\ UNCHANGED fs

(***************************************************************************)
(* processEntry: the switch on header.Typeflag                             *)
(***************************************************************************)
entryClassLinkSkipped(typeflag) ==
  IF typeflag = TypeDir THEN "dir"
  ELSE IF typeflag = TypeReg THEN "reg"
  ELSE "other"

entryClassOtherAsRegular(typeflag) ==
  IF typeflag = TypeDir THEN "dir"
  ELSE IF typeflag \in {TypeSymlink, TypeLink} THEN "link"
  ELSE "reg"

entryClass(typeflag) ==
  IF typeflag = TypeDir THEN "dir"
  ELSE IF typeflag = TypeReg THEN "reg"
  ELSE IF typeflag \in {TypeSymlink, TypeLink} THEN "link"
  ELSE "other"

\* os.FileMode(header.Mode) & os.ModePerm, with the default for zero
\* a mode taken from the header as it is, special bits included
permOfUnmasked(mode, default) == IF mode = 0 THEN default ELSE mode

permOf(mode, default) ==
  IF mode % PermModulus = 0 THEN default ELSE mode % PermModulus

\* perm &^ umask: the permissions the operating system gives to an object
\* that a process with this umask creates with perm
RECURSIVE Umasked(_, _)
Umasked(perm, umask) ==
  IF perm = 0 THEN 0
  ELSE (IF perm % 2 = 1 /\ umask % 2 = 0 THEN 1 ELSE 0)
         + 2 * Umasked(perm \div 2, umask \div 2)

\* the entry is over without error: control returns to the loop of
\* extractArchive and the locals of the entry are dead
Continue(st) ==
  [st EXCEPT !.pc = "next", !.hdr = NoHdr, !.target = <<>>,
             !.tw = [currentTotal |-> 0, written |-> 0], !.rem = 0, !.src = <<>>,
             !.emut = {}, !.newdirs = {}, !.lastW = NoWrite]

\* a completion that adds the declared size of the header to the running total
CompletedCountsDeclared(st, f, paths) ==
  [Continue(st) EXCEPT
     !.totalWritten = @ + st.hdr.size,
     !.made = [q \in DOMAIN @ \cup paths |-> IF q \in paths THEN f[q] ELSE @[q]]]

\* the entry is complete and has materialized paths: those of them that are
\* there when handleRegularFile returns are recorded as they are
Completed(st, f, paths) ==
  [Continue(st) EXCEPT
     !.made = [q \in DOMAIN @ \cup (paths \cap DOMAIN f) |->
                 IF q \in paths \cap DOMAIN f THEN f[q] ELSE @[q]]]

\* a handleDirectory that creates with os.Mkdir: an existing target is an error
HandleDirectoryExclusive(c) ==
  LET st == calls[c]
      t == st.target
      r == MkdirAll(fs, t, Umasked(permOf(st.hdr.mode, DirDefaultPerm), st.umask))
  IN /\ st.pc = "entry"
     /\ entryClass(st.hdr.typeflag) = "dir"
     /\ IF t \in DOMAIN fs \/ ~r.ok
          THEN /\ UNCHANGED fs
               /\ calls' = [calls EXCEPT ![c] =
                    Fail(st, <<"failed to create directory", "mkdir">>)]
          ELSE /\ fs' = r.fs
               /\ calls' = [calls EXCEPT ![c] =
                    Completed([st EXCEPT !.emut = @ \cup r.created,
                                         !.newdirs = r.created],
                              r.fs, r.created)]

\* handleDirectory
HandleDirectory(c) ==
  LET st == calls[c]
      t == st.target
      r == MkdirAll(fs, t, Umasked(permOf(st.hdr.mode, DirDefaultPerm), st.umask))
  IN /\ st.pc = "entry"
     /\ entryClass(st.hdr.typeflag) = "dir"
     /\ IF t \in DOMAIN fs
          THEN /\ UNCHANGED fs
               /\ calls' = [calls EXCEPT ![c] =
                    IF fs[t].kind # "dir"
                      THEN Fail(st, <<"failed to create directory",
                                      "path exists but is not a directory">>)
                      ELSE Completed(st, fs, {t})]
          ELSE IF ~r.ok
            THEN /\ UNCHANGED fs
                 /\ calls' = [calls EXCEPT ![c] =
                      Fail(st, <<"failed to create directory", "mkdir">>)]
            ELSE /\ fs' = r.fs
                 /\ calls' = [calls EXCEPT ![c] =
                      Completed([st EXCEPT !.emut = @ \cup r.created,
                                           !.newdirs = r.created],
                                r.fs, r.created)]

RejectLink(c) ==
  /\ calls[c].pc = "entry"
  /\ entryClass(calls[c].hdr.typeflag) = "link"
  /\ calls' = [calls EXCEPT ![c] =
       Fail(@, <<"symlinks and hard links are not allowed">>)]
  /\ UNCHANGED fs

SkipUnsupported(c) ==
  /\ calls[c].pc = "entry"
  /\ entryClass(calls[c].hdr.typeflag) = "other"
  /\ calls' = [calls EXCEPT ![c] = [Continue(@) EXCEPT !.skipped = TRUE]]
  /\ UNCHANGED fs

(***************************************************************************)
(* handleRegularFile                                                       *)
(***************************************************************************)
\* os.MkdirAll(filepath.Dir(target), 0755), then os.OpenFile; osFault is a
\* failure of OpenFile for a reason of the operating system
OpenRegularFile(c) ==
  LET st == calls[c]
      t == st.target
      r == MkdirAll(fs, Dir(t), Umasked(DirDefaultPerm, st.umask))
      o == OpenFile(r.fs, t, Umasked(permOf(st.hdr.mode, FileDefaultPerm), st.umask))
      s1 == [st EXCEPT !.emut = @ \cup r.created, !.newdirs = r.created]
  IN /\ st.pc = "entry"
     /\ entryClass(st.hdr.typeflag) = "reg"
     /\ IF ~r.ok
          THEN /\ UNCHANGED fs
               /\ calls' = [calls EXCEPT ![c] =
                    Fail(st, <<"failed to extract file",
                               "failed to create parent directory">>)]
          ELSE \E osFault \in BOOLEAN :
            IF osFault \/ ~o.ok
              THEN /\ fs' = r.fs
                   /\ calls' = [calls EXCEPT ![c] =
                        Fail(s1, <<"failed to extract file", "failed to create file">>)]
              ELSE /\ fs' = o.fs
                   /\ calls' = [calls EXCEPT ![c] =
                        [s1 EXCEPT !.pc = "copy", !.emut = @ \cup {t},
                                   !.tw = [currentTotal |-> st.totalWritten, written |-> 0],
                                   !.rem = st.hdr.size, !.src = <<>>]]

validateTotalSizeOrEqual(totalWritten, additionalBytes) ==
  totalWritten + additionalBytes >= MaxTotalSize

\* validateTotalSize returns an error
validateTotalSize(totalWritten, additionalBytes) ==
  totalWritten + additionalBytes > MaxTotalSize


twRejectsIgnoresWritten(tw, n) == validateTotalSize(tw.currentTotal, n)

\* trackingWriter.Write(p) with len(p) = n returns the error of validateTotalSize
twRejects(tw, n) == validateTotalSize(tw.currentTotal + tw.written, n)

Min(a, b) == IF a < b THEN a ELSE b

\* what tar.Reader.Read can return with rem content bytes left: n bytes and
\* io.EOF when they are the last, nil when more follow, io.ErrUnexpectedEOF
\* when the stream ends before the declared size
ReadResults(rem) ==
  { r \in [n : 0..Min(rem, MaxChunk), err : {"nil", "EOF", "unexpected EOF"}] :
      /\ (r.err = "EOF") = (r.n = rem)
      /\ r.err = "nil" => r.n > 0 }

\* one iteration of io.Copy(trackingWriter, tr): Read, then Write of what was
\* read; on an error io.Copy returns and handleRegularFile removes the target.
\* k is the number of bytes f.Write accepts: fewer than n is a write error
CopyChunk(c) ==
  LET st == calls[c]
      t == st.target
  IN /\ st.pc = "copy"
     /\ \E r \in ReadResults(st.rem) : \E data \in [1..r.n -> Bytes] : \E k \in 0..r.n :
          LET n == r.n
              rejected == n > 0 /\ twRejects(st.tw, n)
              f1 == WriteData(fs, t, st.tw.written, SubSeq(data, 1, k))
              s1 == [st EXCEPT !.rem = @ - n, !.src = @ \o data,
                               !.tw.written = @ + k, !.phys = @ + k,
                               !.lastW = IF n = 0 THEN @ ELSE
                                 [total |-> st.tw.currentTotal, written |-> st.tw.written,
                                  len |-> n, passed |-> k, rejected |-> rejected]]
              copyErr == IF rejected THEN <<"exceeds maximum total size limit">>
                         ELSE IF k < n THEN <<"write error">>
                         ELSE IF r.err = "unexpected EOF" THEN <<"unexpected EOF">>
                         ELSE Nil
          IN /\ rejected => k = 0
             /\ IF copyErr # Nil
                  THEN /\ fs' = osRemove(f1, t)
                       /\ calls' = [calls EXCEPT ![c] =
                            Fail(s1, <<"failed to extract file", "failed to write file content">>
                                       \o copyErr)]
                  ELSE /\ fs' = f1
                       /\ calls' = [calls EXCEPT ![c] =
                            [s1 EXCEPT !.pc = IF r.err = "EOF" THEN "copied" ELSE "copy"]]

\* a post-check that fails already at twice the declared size
FinishFileAtDouble(c) ==
  LET st == calls[c]
      t == st.target
      written == st.tw.written
  IN /\ st.pc = "copied"
     /\ IF written >= st.hdr.size * 2
          THEN /\ fs' = osRemove(fs, t)
               /\ calls' = [calls EXCEPT ![c] =
                    Fail(st, <<"failed to extract file",
                         "wrote more bytes than reasonable limit">>)]
          ELSE /\ UNCHANGED fs
               /\ calls' = [calls EXCEPT ![c] =
                    Completed([st EXCEPT !.totalWritten = @ + written],
                              fs, st.newdirs \cup {t})]

\* a running total kept in a package-level variable: every call in flight sees
\* the bytes of every other
FinishFileSharedTotal(c) ==
  LET st == calls[c]
      t == st.target
      written == st.tw.written
  IN /\ st.pc = "copied"
     /\ IF written > st.hdr.size * 2
          THEN /\ fs' = osRemove(fs, t)
               /\ calls' = [calls EXCEPT ![c] =
                    Fail(st, <<"failed to extract file",
                         "wrote more bytes than reasonable limit">>)]
          ELSE /\ UNCHANGED fs
               /\ calls' = [d \in CallIds |->
                    IF d = c
                    THEN Completed([st EXCEPT !.totalWritten = @ + written],
                                   fs, st.newdirs \cup {t})
                    ELSE IF calls[d].pc = "off" THEN calls[d]
                    ELSE [calls[d] EXCEPT !.totalWritten = @ + written]]

\* io.Copy returned without error: the check of written against header.Size*2,
\* and in processEntry *totalWritten += written
FinishFile(c) ==
  LET st == calls[c]
      t == st.target
      written == st.tw.written
  IN /\ st.pc = "copied"
     /\ IF written > st.hdr.size * 2
          THEN /\ fs' = osRemove(fs, t)
               /\ calls' = [calls EXCEPT ![c] =
                    Fail(st, <<"failed to extract file",
                         "wrote more bytes than reasonable limit">>)]
          ELSE /\ UNCHANGED fs
               /\ calls' = [calls EXCEPT ![c] =
                    Completed([st EXCEPT !.totalWritten = @ + written],
                              fs, st.newdirs \cup {t})]

Next ==
  \E c \in CallIds :
    \/ Setup(c)
    \/ NextEOF(c)
    \/ NextError(c)
    \/ NextNil(c)
    \/ NextHeader(c)
    \/ HandleDirectory(c)
    \/ RejectLink(c)
    \/ SkipUnsupported(c)
    \/ OpenRegularFile(c)
    \/ CopyChunk(c)
    \/ FinishFile(c)

Spec == Init /\ [][Next]_vars

(***************************************************************************)
(* UntarGz into an empty destination, of a well-formed archive that holds  *)
(* only directories and regular files, inside the root and within the      *)
(* per-file limit                                                          *)
(***************************************************************************)
PlainHeaders(root) ==
  { h \in Headers :
      /\ h.typeflag \in {TypeDir, TypeReg}
      /\ h.size <= MaxFileSize
      /\ Within(Join(root, h.name), root) }

NextPlainHeader(c) ==
  /\ calls[c].pc = "next"
  /\ \E hdr \in PlainHeaders(calls[c].root) :
       calls' = [calls EXCEPT ![c] = checkHeader(@, hdr)]
  /\ UNCHANGED fs

InitEmpty ==
  /\ fs = BaseFS
  /\ calls = [c \in CallIds |-> IF c = 1 THEN Fresh(Root, fs) ELSE Off]

NextRoundTrip ==
  \E c \in CallIds :
    \/ Setup(c)
    \/ NextEOF(c)
    \/ NextPlainHeader(c)
    \/ HandleDirectory(c)
    \/ OpenRegularFile(c)
    \/ CopyChunk(c)
    \/ FinishFile(c)

SpecRoundTrip == InitEmpty /\ [][NextRoundTrip]_vars

(***************************************************************************)
(* UntarGz of an archive of directory entries, and when it has succeeded   *)
(* a second UntarGz of the same archive into the same root                 *)
(***************************************************************************)
DirHeaders == { h \in Headers : h.typeflag = TypeDir }

NextDirHeader(c) ==
  /\ calls[c].pc = "next"
  /\ Len(calls[c].arch) < MaxDirEntries
  /\ \E hdr \in DirHeaders :
       calls' = [calls EXCEPT ![c] = [checkHeader(@, hdr) EXCEPT !.arch = Append(@, hdr)]]
  /\ UNCHANGED fs

\* the second call: the stream is the one the first call decoded
Rerun ==
  /\ calls[1].pc = "done"
  /\ calls[2].pc = "off"
  /\ calls' = [calls EXCEPT ![2] = [Fresh(calls[1].root, fs) EXCEPT !.pc = "next"]]
  /\ UNCHANGED fs

ReplayHeader(c) ==
  /\ calls[c].pc = "next"
  /\ Len(calls[c].arch) < Len(calls[1].arch)
  /\ LET hdr == calls[1].arch[Len(calls[c].arch) + 1]
     IN calls' = [calls EXCEPT ![c] = [checkHeader(@, hdr) EXCEPT !.arch = Append(@, hdr)]]
  /\ UNCHANGED fs

ReplayEOF(c) ==
  /\ calls[c].pc = "next"
  /\ calls[c].arch = calls[1].arch
  /\ calls' = [calls EXCEPT ![c].pc = "done"]
  /\ UNCHANGED fs

NextTwice ==
  \/ Setup(1)
  \/ NextDirHeader(1)
  \/ NextEOF(1)
  \/ \E c \in CallIds : HandleDirectory(c)
  \/ Rerun
  \/ ReplayHeader(2)
  \/ ReplayEOF(2)

SpecTwice == Init /\ [][NextTwice]_vars

(***************************************************************************)
(* Two UntarGz calls in flight, into the roots /r and /rx, each reading    *)
(* regular files of the largest size allowed: every interleaving of their  *)
(* steps, the runs where one call ends before the other begins included    *)
(***************************************************************************)
Root2 == <<SegRX>>

RootOf(c) == IF c = 1 THEN Root ELSE Root2

ConcHeaders ==
  { h \in Headers :
      h.name = <<SegA>> /\ h.typeflag = TypeReg /\ h.mode = 0 /\ h.size = MaxFileSize }

NextConcHeader(c) ==
  /\ calls[c].pc = "next"
  /\ \E hdr \in ConcHeaders : calls' = [calls EXCEPT ![c] = checkHeader(@, hdr)]
  /\ UNCHANGED fs

InitConcurrent ==
  /\ fs = [p \in {<<>>, Root, Root2} |-> DirNode(DirDefaultPerm)]
  /\ calls = [c \in CallIds |-> Fresh(RootOf(c), fs)]

NextConcurrent ==
  \E c \in CallIds :
    \/ Setup(c)
    \/ NextEOF(c)
    \/ NextConcHeader(c)
    \/ OpenRegularFile(c)
    \/ CopyChunk(c)
    \/ FinishFile(c)

SpecConcurrent == InitConcurrent /\ [][NextConcurrent]_vars

(***************************************************************************)
(* The HTTP handlers: POST /upload, DELETE /upload, DELETE /delete. The    *)
(* upload directory is /r, and /rx is its sibling. A handler runs from the *)
(* request to the reply in one step, except that the tar.gz upload calls   *)
(* UntarGz, whose steps are those of the extractor.                        *)
(***************************************************************************)
directory == Root

\* the path field of a file: a, ../rx/a, ../a, and the empty field
ReqPaths == { <<SegA>>, <<SegUp, SegRX, SegA>>, <<SegUp, SegA>>, <<>> }

\* the path field of a directory to clean: the empty field, a, ../rx, ../a
DirPaths == { <<>>, <<SegA>>, <<SegUp, SegRX>>, <<SegUp, SegA>> }

\* the targz field: absent, "1", "true"
TargzValues == {"", "1", "true"}

\* the recursive field: absent, "true", and a value ParseBool rejects
RecursiveValues == {"", "true", "x"}

\* file.Filename
FileName == <<SegB>>

\* the bytes of a plain upload
Bodies == {<<1>>}

\* the handler is not serving a request
Idle == [Fresh(<<>>, NoFiles) EXCEPT !.pc = "idle"]

\* the reply: the status, and for the properties the request and the paths the
\* handler created, wrote or removed
Reply(req, status, touched) ==
  [Idle EXCEPT !.req = req, !.status = status, !.emut = touched]

\* a check that also refuses the upload directory itself
deniedWithDirectory(abspath) ==
  \/ ~HasPrefix(Str(abspath), Str(Abs(directory)))
  \/ abspath = Abs(directory)

\* !strings.HasPrefix(abspath, absuploaddir)
denied(abspath) == ~HasPrefix(Str(abspath), Str(Abs(directory)))

\* a removal that gives up on a directory that is not empty
RemoveAllEmptyOnly(f, p) == osRemove(f, p)

\* os.RemoveAll
RemoveAll(f, p) == [q \in {x \in DOMAIN f : ~Within(x, p)} |-> f[q]]

handleTarGzUpload(c, req, savepath, abspath) ==
  LET r == MkdirAll(fs, savepath, DirDefaultPerm)
  IN IF ~r.ok
       THEN /\ UNCHANGED fs
            /\ calls' = [calls EXCEPT ![c] = Reply(req, StatusInternalServerError, {})]
       ELSE /\ fs' = r.fs
            /\ calls' = [calls EXCEPT ![c] =
                 [Fresh(abspath, r.fs) EXCEPT
                    !.req = req,
                    !.made = [q \in r.created |-> r.fs[q]]]]

\* a plain upload that creates no parent directory
handleRegularUploadNoMkdir(c, req, savepath, body) ==
  LET o == OpenFile(fs, savepath, CreatePerm)
  IN IF ~o.ok
       THEN /\ UNCHANGED fs
            /\ calls' = [calls EXCEPT ![c] = Reply(req, StatusInternalServerError, {})]
       ELSE /\ fs' = WriteData(o.fs, savepath, 0, body)
            /\ calls' = [calls EXCEPT ![c] = Reply(req, StatusCreated, {savepath})]

handleRegularUpload(c, req, savepath, body) ==
  LET r == IF savepath \in DOMAIN fs \/ FileAboveIn(fs, savepath)
           THEN [ok |-> TRUE, fs |-> fs, created |-> {}]
           ELSE MkdirAll(fs, Dir(savepath), DirDefaultPerm)
      o == OpenFile(r.fs, savepath, CreatePerm)
  IN IF ~r.ok
       THEN /\ UNCHANGED fs
            /\ calls' = [calls EXCEPT ![c] = Reply(req, StatusInternalServerError, {})]
     ELSE IF ~o.ok
       THEN /\ fs' = r.fs
            /\ calls' = [calls EXCEPT ![c] =
                 Reply(req, StatusInternalServerError, r.created)]
     ELSE /\ fs' = WriteData(o.fs, savepath, 0, body)
          /\ calls' = [calls EXCEPT ![c] =
               Reply(req, StatusCreated, r.created \cup {savepath})]

\* upload on a form with the given path and targz fields and file
uploadForm(c, field, targz, body) ==
  LET path == IF field = <<>> THEN FileName ELSE field
      savepath == Join(directory, path)
      abspath == Abs(savepath)
      req == [handler |-> "upload", path |-> path, targz |-> targz,
              recursive |-> "", file |-> body, days |-> 0, now |-> 0,
              daysField |-> <<>>]
  IN IF denied(abspath)
       THEN /\ UNCHANGED fs
            /\ calls' = [calls EXCEPT ![c] = Reply(req, StatusForbidden, {})]
     ELSE IF targz = "true"
       THEN handleTarGzUpload(c, req, savepath, abspath)
     ELSE handleRegularUpload(c, req, savepath, body)

upload(c) ==
  /\ calls[c].pc = "idle"
  /\ \E field \in ReqPaths : \E targz \in TargzValues : \E body \in Bodies :
       uploadForm(c, field, targz, body)

\* gzip.NewReader accepts a stream that begins with the gzip magic number; in
\* the model the byte 1 stands for it
IsGzip(file) == Len(file) > 0 /\ file[1] = 1

\* UntarGz(abspath, src) on the uploaded file: the gzip reader is refused on a
\* file that does not begin with the magic number
SetupUpload(c) ==
  /\ Setup(c)
  /\ ~IsGzip(calls[c].req.file) => calls'[c].pc = "failed"

\* UntarGz has returned to handleTarGzUpload
tarGzReply(c) ==
  /\ calls[c].pc \in {"done", "failed"}
  /\ calls[c].req.handler = "upload"
  /\ calls' = [calls EXCEPT ![c] =
       [Reply(calls[c].req,
              IF calls[c].pc = "done" THEN StatusCreated ELSE StatusInternalServerError,
              DOMAIN calls[c].made \cup calls[c].emut)
          EXCEPT !.root = calls[c].root, !.made = calls[c].made]]
  /\ UNCHANGED fs

\* uploaderDelete on a form with the given path field
uploaderDeleteForm(c, path) ==
  LET abspath == Abs(Join(directory, path))
      req == [handler |-> "uploaderDelete", path |-> path, targz |-> "",
              recursive |-> "", file |-> <<>>, days |-> 0, now |-> 0,
              daysField |-> <<>>]
  IN IF denied(abspath)
       THEN /\ UNCHANGED fs
            /\ calls' = [calls EXCEPT ![c] = Reply(req, StatusForbidden, {})]
     ELSE IF abspath \notin DOMAIN fs
       THEN /\ UNCHANGED fs
            /\ calls' = [calls EXCEPT ![c] = Reply(req, StatusNotFound, {})]
     ELSE /\ fs' = RemoveAll(fs, abspath)
          /\ calls' = [calls EXCEPT ![c] =
               Reply(req, StatusAccepted, {q \in DOMAIN fs : Within(q, abspath)})]

uploaderDelete(c) ==
  /\ calls[c].pc = "idle"
  /\ \E path \in ReqPaths : uploaderDeleteForm(c, path)

\* the entries of dir that findFilesOlderThanXDays can return when the
\* modification times are left open: regular files, and directories when
\* recursive; which of them are old is for the clock
findFilesOfAnyAge(f, dir, recursive) ==
  SUBSET { q \in DOMAIN f :
             /\ q # dir
             /\ Dir(q) = dir
             /\ (IsFile(f, q) \/ (recursive /\ IsDir(f, q))) }

DigitValue ==
  ("0" :> 0) @@ ("1" :> 1) @@ ("2" :> 2) @@ ("3" :> 3) @@ ("4" :> 4) @@
  ("5" :> 5) @@ ("6" :> 6) @@ ("7" :> 7) @@ ("8" :> 8) @@ ("9" :> 9)

\* an Atoi that reads the leading digits and stops at the first other character
RECURSIVE AtoiLeadingDigits(_)
AtoiLeadingDigits(s) ==
  IF s = <<>> \/ s[1] \notin DOMAIN DigitValue THEN 0
  ELSE LET n == CHOOSE k \in 1..Len(s) :
                  /\ \A i \in 1..k : s[i] \in DOMAIN DigitValue
                  /\ (k = Len(s) \/ s[k + 1] \notin DOMAIN DigitValue)
       IN IF n = 1 THEN DigitValue[s[1]]
          ELSE 10 * AtoiLeadingDigits(SubSeq(s, 1, n - 1)) + DigitValue[s[n]]

\* days, _ := strconv.Atoi(field) on a field without sign: the number, and 0
\* for a field that is empty or holds a character that is no digit, the error
\* being dropped
RECURSIVE Atoi(_)
Atoi(s) ==
  IF s = <<>> \/ \E i \in 1..Len(s) : s[i] \notin DOMAIN DigitValue THEN 0
  ELSE IF Len(s) = 1 THEN DigitValue[s[1]]
  ELSE 10 * Atoi(SubSeq(s, 1, Len(s) - 1)) + DigitValue[s[Len(s)]]

\* deleteOldFilesOfDir on a form with the given path, recursive and days
\* fields, at the time now, where results holds what findFilesOlderThanXDays
\* can return
deleteOldForm(c, path, recursiveFlag, daysField, now, results) ==
  LET abspath == Abs(Join(directory, path))
      days == Atoi(daysField)
      req == [handler |-> "deleteOldFilesOfDir", path |-> path, targz |-> "",
              recursive |-> recursiveFlag, file |-> <<>>, days |-> days, now |-> now,
              daysField |-> daysField]
  IN IF recursiveFlag \notin {"", "true"}
       THEN /\ UNCHANGED fs
            /\ calls' = [calls EXCEPT ![c] = Reply(req, StatusBadRequest, {})]
     ELSE IF denied(abspath)
       THEN /\ UNCHANGED fs
            /\ calls' = [calls EXCEPT ![c] = Reply(req, StatusForbidden, {})]
     ELSE IF abspath \notin DOMAIN fs
       THEN /\ UNCHANGED fs
            /\ calls' = [calls EXCEPT ![c] = Reply(req, StatusNotFound, {})]
     ELSE IF ~IsDir(fs, abspath)
       THEN /\ UNCHANGED fs
            /\ calls' = [calls EXCEPT ![c] =
                 Reply(req, StatusInternalServerError, {})]
     ELSE \E files \in results :
            LET removed == {q \in files : osRemove(fs, q) # fs}
            IN /\ fs' = [q \in DOMAIN fs \ removed |-> fs[q]]
               /\ calls' = [calls EXCEPT ![c] = Reply(req, StatusAccepted, removed)]

deleteOldFilesOfDir(c) ==
  /\ calls[c].pc = "idle"
  /\ \E path \in DirPaths : \E recursiveFlag \in RecursiveValues :
       deleteOldForm(c, path, recursiveFlag, <<"0">>, 0,
                     findFilesOfAnyAge(fs, Abs(Join(directory, path)),
                                       recursiveFlag = "true"))

InitHTTP ==
  /\ fs \in { Put(Put(BaseFS, <<SegR, SegA>>, FileNode(FileDefaultPerm, <<1>>)),
                <<SegRX>>, DirNode(DirDefaultPerm)),
               Put(Put(BaseFS, <<SegRX>>, DirNode(DirDefaultPerm)),
                <<SegRX, SegA>>, FileNode(FileDefaultPerm, <<1>>)) }
  /\ calls = [c \in CallIds |-> IF c = 1 THEN Idle ELSE Off]

NextHTTP ==
  \E c \in CallIds :
    \/ upload(c)
    \/ uploaderDelete(c)
    \/ deleteOldFilesOfDir(c)
    \/ SetupUpload(c)
    \/ NextEOF(c)
    \/ NextConcHeader(c)
    \/ OpenRegularFile(c)
    \/ CopyChunk(c)
    \/ FinishFile(c)
    \/ tarGzReply(c)

SpecHTTP == InitHTTP /\ [][NextHTTP]_vars

(***************************************************************************)
(* Extraction of directories and files with special bits in their modes,   *)
(* by a process with a umask                                               *)
(***************************************************************************)
\* header.Mode: 0, 04000, 04777 and 0666
PermModes == {0, 2048, 2559, 438}

\* the umask of the process: 0, 022 and 077
Umasks == {0, 18, 63}

\* directories and files a, a/b and b/a
PermHeaders ==
  [name : {<<SegA>>, <<SegA, SegB>>, <<SegB, SegA>>}, typeflag : {TypeDir, TypeReg},
   size : {0}, mode : PermModes]

NextPermHeader(c) ==
  /\ calls[c].pc = "next"
  /\ \E hdr \in PermHeaders : calls' = [calls EXCEPT ![c] = checkHeader(@, hdr)]
  /\ UNCHANGED fs

InitPerm ==
  /\ fs = BaseFS
  /\ \E umask \in Umasks :
       calls = [c \in CallIds |->
                  IF c = 1 THEN [Fresh(Root, fs) EXCEPT !.umask = umask] ELSE Off]

NextPerm ==
  \E c \in CallIds :
    \/ Setup(c)
    \/ NextEOF(c)
    \/ NextPermHeader(c)
    \/ HandleDirectory(c)
    \/ OpenRegularFile(c)
    \/ CopyChunk(c)
    \/ FinishFile(c)

SpecPerm == InitPerm /\ [][NextPerm]_vars

(***************************************************************************)
(* DELETE /delete on files and directories that have a modification time,  *)
(* counted in hours                                                        *)
(***************************************************************************)
\* the largest time.Duration, math.MaxInt64 nanoseconds, in whole hours
MaxDurationHours == 2562047

\* time.Duration(days) * 24 * time.Hour: the int64 product wraps around
DurationOfDays(days) ==
  LET h == days * 24
  IN IF h > MaxDurationHours THEN h - 2 * (MaxDurationHours + 1) ELSE h

isOlderThanXDays(t, days, now) == now - t > DurationOfDays(days)

findFilesOlderThanXDays(f, dir, days, recursive, now) ==
  { q \in DOMAIN f :
      /\ q # dir
      /\ Dir(q) = dir
      /\ (IsFile(f, q) \/ (recursive /\ IsDir(f, q)))
      /\ isOlderThanXDays(f[q].mtime, days, now) }

\* info.ModTime() of the files and directories, and the time of a request
Mtimes == {0, 26, 50}

Nows == {50, 51}

\* the days field: 0, 1, 2, 106752, and the fields empty, x and 1x that are
\* no number
DaysFields ==
  { <<"0">>, <<"1">>, <<"2">>, <<"1", "0", "6", "7", "5", "2">>,
    <<>>, <<"x">>, <<"1", "x">> }

\* the path field: the upload directory, its subdirectory b, its file a
OldPaths == { <<>>, <<SegB>>, <<SegA>> }

AgedFile(mtime) ==
  [kind |-> "file", perm |-> FileDefaultPerm, data |-> <<1>>, mtime |-> mtime]

AgedDir(mtime) ==
  [kind |-> "dir", perm |-> DirDefaultPerm, data |-> <<>>, mtime |-> mtime]

deleteOldFiles(c) ==
  /\ calls[c].pc = "idle"
  /\ \E path \in OldPaths : \E recursiveFlag \in RecursiveValues :
       \E daysField \in DaysFields : \E now \in Nows :
         deleteOldForm(c, path, recursiveFlag, daysField, now,
                       { findFilesOlderThanXDays(fs, Abs(Join(directory, path)),
                                                 Atoi(daysField),
                                                 recursiveFlag = "true", now) })

\* the upload directory holds the files a and rx and the directory b, which
\* is empty or holds the file b/a; every modification time is open
InitDeleteOld ==
  /\ \E ma \in Mtimes : \E mx \in Mtimes : \E mb \in Mtimes :
       LET top == Put(Put(Put(Put(Put(NoFiles, <<>>, AgedDir(0)), Root, AgedDir(0)),
                              <<SegR, SegA>>, AgedFile(ma)),
                          <<SegR, SegRX>>, AgedFile(mx)),
                      <<SegR, SegB>>, AgedDir(mb))
       IN fs \in {top} \cup { Put(top, <<SegR, SegB, SegA>>, AgedFile(ms)) : ms \in Mtimes }
  /\ calls = [c \in CallIds |-> IF c = 1 THEN Idle ELSE Off]

NextDeleteOld == \E c \in CallIds : deleteOldFiles(c)

SpecDeleteOld == InitDeleteOld /\ [][NextDeleteOld]_vars

(***************************************************************************)
(* Uploader: the router, the basic-auth middleware that is installed when  *)
(* UPLOADER_UPLOAD_CREDENTIALS is set, and the handlers behind it          *)
(***************************************************************************)
\* strings.Split(s, ":")
RECURSIVE stringsSplit(_)
stringsSplit(s) ==
  IF \A i \in 1..Len(s) : s[i] # ":"
  THEN <<s>>
  ELSE LET i == CHOOSE k \in 1..Len(s) :
                  s[k] = ":" /\ \A j \in 1..(k - 1) : s[j] # ":"
       IN <<SubSeq(s, 1, i - 1)>> \o stringsSplit(SubSeq(s, i + 1, Len(s)))

\* strings.Join(parts, ":")
RECURSIVE stringsJoin(_)
stringsJoin(parts) ==
  IF parts = <<>> THEN <<>>
  ELSE IF Len(parts) = 1 THEN parts[1]
  ELSE parts[1] \o <<":">> \o stringsJoin(Tail(parts))

\* the value of UPLOADER_UPLOAD_CREDENTIALS: u:p:q, a password with a colon
Credentials == <<"u", ":", "p", ":", "q">>

Methods == {"GET", "HEAD", "POST", "DELETE"}

\* the request paths /health, /upload, /delete and /a
Urls == {"health", "upload", "delete", "a"}

\* the decoded Authorization header: absent, u:p:q, u:p, u:q, p:p:q, u, and
\* username:password
AuthHeaders ==
  { Nil, <<"u", ":", "p", ":", "q">>, <<"u", ":", "p">>, <<"u", ":", "q">>,
    <<"p", ":", "p", ":", "q">>, <<"u">>, <<"username", ":", "password">> }

\* the routes: the path c.Path() reports and the handler, for the route that
\* the router matches on the method and the path of the request
Route(method, url) ==
  IF method = "GET" /\ url = "health"
    THEN [path |-> "/health", handler |-> "healthCheck"]
  ELSE IF method = "POST" /\ url = "upload"
    THEN [path |-> "/upload", handler |-> "upload"]
  ELSE IF method = "DELETE" /\ url = "upload"
    THEN [path |-> "/upload", handler |-> "uploaderDelete"]
  ELSE IF method = "DELETE" /\ url = "delete"
    THEN [path |-> "/delete", handler |-> "deleteOldFilesOfDir"]
  ELSE IF method = "HEAD"
    THEN [path |-> "/:path", handler |-> "lastModified"]
  ELSE IF method = "GET"
    THEN [path |-> "/*", handler |-> "static"]
  ELSE IF url \in {"health", "upload", "delete"}
    THEN [path |-> "/" \o url, handler |-> "methodNotAllowed"]
  ELSE [path |-> "/:path", handler |-> "methodNotAllowed"]

\* c.Skipper
Skipper(method, path) ==
  IF path = "/health" THEN TRUE
  ELSE IF method \in {"HEAD", "GET"} /\ path # "/upload" /\ path # "/delete" THEN TRUE
  ELSE FALSE

\* a validator that takes the text up to the second colon for the password
ValidatorSecondPart(username, password, creds) ==
  /\ username = creds[1]
  /\ Len(creds) > 1
  /\ password = creds[2]

\* c.Validator
Validator(username, password, creds) ==
  /\ username = creds[1]
  /\ password = stringsJoin(Tail(creds))

\* a request has arrived and has been routed
Receive(c) ==
  /\ calls[c].pc = "idle"
  /\ \E method \in Methods : \E url \in Urls : \E auth \in AuthHeaders :
       calls' = [calls EXCEPT ![c] =
         [Idle EXCEPT !.pc = "routed",
                      !.req = [handler |-> "request", method |-> method, url |-> url,
                               auth |-> auth, route |-> Route(method, url)]]]
  /\ UNCHANGED fs

\* middleware.BasicAuthWithConfig: a request that is not skipped goes on when
\* its header holds user:password, split at the first colon, and the validator
\* accepts them
BasicAuth(c, creds) ==
  /\ calls[c].pc = "routed"
  /\ LET req == calls[c].req
         parts == stringsSplit(req.auth)
         accepted ==
           \/ Skipper(req.method, req.route.path)
           \/ /\ req.auth # Nil
              /\ Len(parts) > 1
              /\ Validator(parts[1], stringsJoin(Tail(parts)), creds)
     IN calls' = [calls EXCEPT ![c] =
          IF accepted THEN [@ EXCEPT !.pc = "handle"]
          ELSE Reply(req, StatusUnauthorized, {})]
  /\ UNCHANGED fs

\* no middleware between the router and the handler
NoAuth(c) ==
  /\ calls[c].pc = "routed"
  /\ calls' = [calls EXCEPT ![c].pc = "handle"]
  /\ UNCHANGED fs

\* the handler of the matched route
Handle(c) ==
  /\ calls[c].pc = "handle"
  /\ LET req == calls[c].req
         h == req.route.handler
         abspath == Abs(Join(directory, <<<<req.url>>>>))
     IN IF h = "upload"
          THEN \E field \in {<<SegA>>, <<SegB>>} : \E body \in Bodies :
                 uploadForm(c, field, "", body)
        ELSE IF h = "uploaderDelete"
          THEN \E path \in {<<SegA>>, <<SegB>>} : uploaderDeleteForm(c, path)
        ELSE IF h = "deleteOldFilesOfDir"
          THEN deleteOldForm(c, <<>>, "", <<"0">>, 0,
                             findFilesOfAnyAge(fs, Abs(directory), FALSE))
        ELSE /\ UNCHANGED fs
             /\ calls' = [calls EXCEPT ![c] =
                  Reply(req,
                        IF h = "healthCheck" THEN StatusOK
                        ELSE IF h = "methodNotAllowed" THEN StatusMethodNotAllowed
                        ELSE IF denied(abspath) THEN StatusForbidden
                        ELSE IF abspath \in DOMAIN fs THEN StatusOK
                        ELSE StatusNotFound,
                        {})]

InitAuth ==
  /\ fs = Put(BaseFS, <<SegR, SegA>>, FileNode(FileDefaultPerm, <<1>>))
  /\ calls = [c \in CallIds |-> IF c = 1 THEN Idle ELSE Off]

\* Uploader with UPLOADER_UPLOAD_CREDENTIALS set
NextAuth ==
  \E c \in CallIds :
    \/ Receive(c)
    \/ BasicAuth(c, stringsSplit(Credentials))
    \/ Handle(c)

SpecAuth == InitAuth /\ [][NextAuth]_vars

\* Uploader with UPLOADER_UPLOAD_CREDENTIALS not set
NextNoAuth ==
  \E c \in CallIds :
    \/ Receive(c)
    \/ NoAuth(c)
    \/ Handle(c)

SpecNoAuth == InitAuth /\ [][NextNoAuth]_vars

(***************************************************************************)
(* Uploads into one directory: plain files over an existing file, below    *)
(* missing directories and over a directory, and archives                  *)
(***************************************************************************)
\* the path field: a, b/a, b, a/b, and the empty field
UploadFields == { <<SegA>>, <<SegB, SegA>>, <<SegB>>, <<SegA, SegB>>, <<>> }

\* the uploaded file: two that are no gzip stream, two that begin like one
UploadBodies == { <<0>>, <<0, 1>>, <<1>>, <<1, 0>> }

uploadFile(c) ==
  /\ calls[c].pc = "idle"
  /\ \E field \in UploadFields : \E targz \in TargzValues : \E body \in UploadBodies :
       uploadForm(c, field, targz, body)

InitUpload ==
  /\ fs = Put(BaseFS, <<SegR, SegA>>, FileNode(FileDefaultPerm, <<1, 1>>))
  /\ calls = [c \in CallIds |-> IF c = 1 THEN Idle ELSE Off]

NextUpload ==
  \E c \in CallIds :
    \/ uploadFile(c)
    \/ SetupUpload(c)
    \/ NextEOF(c)
    \/ NextError(c)
    \/ tarGzReply(c)

SpecUpload == InitUpload /\ [][NextUpload]_vars

(***************************************************************************)
(* handleRegularFile from the call of io.Copy on, with a header that       *)
(* passed the pre-check and a reader whose content can be of any length,   *)
(* shorter or longer than the header declares                              *)
(***************************************************************************)
FileHeaders ==
  { h \in Headers :
      /\ h.name = <<SegA>> /\ h.typeflag = TypeReg /\ h.mode = 0
      /\ h.size <= MaxFileSize }

\* the target is open and empty, currentTotal is the running total
Copying(h, content, total) ==
  [Fresh(Root, BaseFS) EXCEPT
     !.pc = "copy", !.hdr = h, !.target = Join(Root, h.name), !.nent = 1,
     !.totalWritten = total, !.phys = total,
     !.tw = [currentTotal |-> total, written |-> 0],
     !.rem = content, !.emut = {Join(Root, h.name)}]

InitHandleFile ==
  \E h \in FileHeaders : \E content \in 0..MaxContent :
    \E total \in {0, MaxTotalSize - MaxContent} :
      /\ fs = Put(BaseFS, Join(Root, h.name), FileNode(FileDefaultPerm, <<>>))
      /\ calls = [c \in CallIds |-> IF c = 1 THEN Copying(h, content, total) ELSE Off]

NextHandleFile ==
  \E c \in CallIds :
    \/ CopyChunk(c)
    \/ FinishFile(c)

SpecHandleFile == InitHandleFile /\ [][NextHandleFile]_vars

(***************************************************************************)
(* Properties                                                              *)
(***************************************************************************)
ErrSize == <<"exceeds maximum size limit">>

ErrUnsafe == <<"unsafe path detected">>

ErrLink == <<"symlinks and hard links are not allowed">>

ErrTotal == <<"failed to extract file", "failed to write file content",
              "exceeds maximum total size limit">>

Active == {c \in CallIds : calls[c].pc # "off"}

\* the call holds the header of an entry
HasEntry(st) == st.hdr # NoHdr

\* the entry's joined and resolved target is neither the root nor below it
Escapes(st) == HasEntry(st) /\ ~Within(Join(st.root, st.hdr.name), st.root)

\* the content of the entry's file failed to be written after it was opened
WriteFailed(st) ==
  /\ st.pc = "failed"
  /\ Len(st.err) >= 2
  /\ st.err[2] \in {"failed to write file content",
                    "wrote more bytes than reasonable limit"}

\* nothing outside the root differs from the filesystem before the call
OutsideUntouched(st) ==
  /\ \A p \in st.emut : Within(p, st.root)
  /\ \A p \in DOMAIN fs : ~Within(p, st.root) => p \in DOMAIN st.fs0 /\ fs[p] = st.fs0[p]
  /\ \A p \in DOMAIN st.fs0 : ~Within(p, st.root) => p \in DOMAIN fs

\* C1 as stated: an entry whose resolved target is neither the root nor below
\* it makes the call fail with the unsafe-path error, nothing is written
\* outside the root, and after a single-entry archive the root holds nothing new
C1_Original ==
  \A c \in Active : Escapes(calls[c]) =>
    /\ calls[c].pc = "failed"
    /\ calls[c].err = ErrUnsafe
    /\ OutsideUntouched(calls[c])
    /\ calls[c].nent = 1 => fs = calls[c].fs0

\* C1 amended: such an entry makes the call fail, with the unsafe-path error
\* when its declared size is at most MaxFileSize and with the size error
\* otherwise; the entry mutates nothing, nothing is written outside the root,
\* and after a single-entry archive the filesystem is the one before the call
C1_UnsafePathFails ==
  \A c \in Active : Escapes(calls[c]) =>
    /\ calls[c].pc = "failed"
    /\ calls[c].err = IF calls[c].hdr.size > MaxFileSize THEN ErrSize ELSE ErrUnsafe
    /\ calls[c].emut = {}
    /\ OutsideUntouched(calls[c])
    /\ calls[c].nent = 1 => fs = calls[c].fs0

C1_Witness ==
  /\ Escapes(calls[1])
  /\ calls[1].err = ErrUnsafe
  /\ calls[1].hdr.typeflag = TypeReg
  /\ calls[1].nent > 1
  /\ fs # calls[1].fs0

\* C2: every path the call created, truncated, wrote to or removed is the root
\* or below it, nothing outside the root changes, and an entry that mutates
\* the filesystem or is being materialized has passed the containment check
\* of its resolved target
C2_MutationsInsideRoot ==
  \A c \in Active :
    /\ OutsideUntouched(calls[c])
    /\ (calls[c].emut # {} \/ calls[c].pc \in {"entry", "copy", "copied"}) =>
         /\ calls[c].target = Join(calls[c].root, calls[c].hdr.name)
         /\ Within(calls[c].target, calls[c].root)
         /\ \A p \in calls[c].emut : Within(p, calls[c].root)

C2_Witness ==
  /\ calls[1].pc = "copy"
  /\ calls[1].hdr.name = <<SegEmpty, SegA, SegB>>
  /\ calls[1].emut = {<<SegR, SegA>>, <<SegR, SegA, SegB>>}
  /\ calls[1].nent > 1

\* the claim's wording of the test, on strings: s is d, or s begins with d
\* followed by the separator
EqualOrBelow(s, d) ==
  \/ s = d
  \/ /\ Len(s) > Len(d)
     /\ \A i \in 1..Len(d) : s[i] = d[i]
     /\ s[Len(d) + 1] = "/"

\* C3: an entry that passed the size pre-check is rejected as unsafe exactly
\* when its resolved target is neither equal to the root nor begins with the
\* root followed by the separator; a target in the sibling /rx of /r is rejected
C3_PathSafeExact ==
  \A c \in Active :
    (HasEntry(calls[c]) /\ calls[c].hdr.size <= MaxFileSize) =>
      /\ (calls[c].pc = "failed" /\ calls[c].err = ErrUnsafe)
           = ~EqualOrBelow(Str(Clean(calls[c].target)), Str(calls[c].root))
      /\ (Len(calls[c].target) >= 1 /\ calls[c].target[1] = SegRX) =>
           (calls[c].pc = "failed" /\ calls[c].err = ErrUnsafe)

C3_Witness ==
  /\ calls[1].target = <<SegRX>>
  /\ calls[1].pc = "failed"
  /\ calls[1].err = ErrUnsafe

IsLinkEntry(st) == st.hdr.typeflag \in {TypeSymlink, TypeLink}

\* C4 as stated: a link entry makes the call fail with the link error and no
\* file with the link's name exists afterwards
C4_Original ==
  \A c \in Active : (IsLinkEntry(calls[c]) /\ calls[c].pc = "failed") =>
    /\ calls[c].err = ErrLink
    /\ calls[c].target \notin DOMAIN fs

\* C4 amended: a link entry makes the call fail: with the size error when its
\* declared size exceeds MaxFileSize, else with the unsafe-path error when its
\* target escapes the root, else with the link error; the link entry creates
\* or changes nothing; a call that read a link entry never ends in success
C4_LinkRejected ==
  \A c \in Active :
    /\ IsLinkEntry(calls[c]) =>
         /\ calls[c].pc \in {"entry", "failed"}
         /\ calls[c].emut = {}
         /\ calls[c].pc = "failed" =>
              calls[c].err = IF calls[c].hdr.size > MaxFileSize THEN ErrSize
                             ELSE IF Escapes(calls[c]) THEN ErrUnsafe
                             ELSE ErrLink
    /\ calls[c].sawLink => calls[c].pc \in {"entry", "failed"}

C4_Witness ==
  /\ IsLinkEntry(calls[1])
  /\ calls[1].pc = "failed"
  /\ calls[1].err = ErrLink
  /\ calls[1].nent > 1
  /\ calls[1].target \notin DOMAIN fs

\* C5: an entry whose declared size exceeds MaxFileSize makes the call fail
\* with the size error before the entry mutates the filesystem or writes a
\* byte; a declared size equal to MaxFileSize does not fail with the size error
C5_DeclaredSizePreCheck ==
  \A c \in Active : HasEntry(calls[c]) =>
    /\ calls[c].hdr.size > MaxFileSize =>
         /\ calls[c].pc = "failed"
         /\ calls[c].err = ErrSize
         /\ calls[c].emut = {}
         /\ calls[c].tw.written = 0
    /\ calls[c].hdr.size = MaxFileSize => calls[c].err # ErrSize

C5_Witness ==
  /\ calls[1].hdr.size = MaxFileSize + 1
  /\ calls[1].hdr.typeflag = TypeReg
  /\ calls[1].pc = "failed"
  /\ calls[1].err = ErrSize
  /\ calls[1].nent > 1

\* C6: the bytes a call has physically written to files never exceed
\* MaxTotalSize, they are the running total plus the bytes of the entry in
\* progress, and a rejected chunk has none of its bytes written
C6_TotalWrittenBounded ==
  \A c \in Active :
    /\ calls[c].phys <= MaxTotalSize
    /\ calls[c].phys = calls[c].totalWritten + calls[c].tw.written
    /\ calls[c].lastW.rejected => calls[c].lastW.passed = 0

C6_Witness ==
  /\ calls[1].pc = "failed"
  /\ calls[1].lastW.rejected
  /\ calls[1].phys = MaxTotalSize
  /\ calls[1].err = ErrTotal

\* C7: Write(chunk) with prior running total T and w bytes written for the file
\* is rejected exactly when T + w + len(chunk) > MaxTotalSize; a rejected Write
\* passes no byte on and fails the call with the total-size error, and a chunk
\* that reaches MaxTotalSize exactly is accepted
C7_RejectedExactlyWhenCrossing ==
  \A c \in Active :
    LET w == calls[c].lastW IN
      w # NoWrite =>
        /\ w.rejected = (w.total + w.written + w.len > MaxTotalSize)
        /\ w.rejected => (w.passed = 0 /\ calls[c].pc = "failed" /\ calls[c].err = ErrTotal)
        /\ calls[c].err = ErrTotal => w.rejected
        /\ ~w.rejected => calls[c].tw.written = w.written + w.passed

C7_Witness ==
  /\ calls[1].lastW # NoWrite
  /\ ~calls[1].lastW.rejected
  /\ calls[1].lastW.total + calls[1].lastW.written + calls[1].lastW.len = MaxTotalSize
  /\ calls[1].lastW.passed = calls[1].lastW.len
  /\ calls[1].lastW.written > 0

\* C8: while a regular-file entry is being written, the bytes written to its
\* target file are at most MaxFileSize
C8_FileWrittenBounded ==
  \A c \in Active :
    /\ calls[c].tw.written <= MaxFileSize
    /\ (calls[c].pc \in {"copy", "copied"} /\ IsFile(fs, calls[c].target)) =>
         Len(fs[calls[c].target].data) <= MaxFileSize

C8_Witness ==
  /\ calls[1].pc = "copied"
  /\ calls[1].tw.written = MaxFileSize
  /\ Len(fs[calls[1].target].data) = MaxFileSize
  /\ calls[1].nent > 1

\* C9: when the content of a regular-file entry failed to be written after the
\* target was opened, the target does not exist when the call has returned
C9_NoPartialFile ==
  \A c \in Active : WriteFailed(calls[c]) => calls[c].target \notin DOMAIN fs

C9_Witness ==
  /\ WriteFailed(calls[1])
  /\ calls[1].err[3] = "unexpected EOF"
  /\ calls[1].tw.written > 0
  /\ calls[1].nent > 1

\* C10 as stated: after a failed call everything the completed entries
\* materialized still exists with the content the last of them gave it
C10_Original ==
  \A c \in Active : calls[c].pc = "failed" =>
    \A p \in DOMAIN calls[c].made : p \in DOMAIN fs /\ fs[p] = calls[c].made[p]

\* C10 amended: after a failed call everything the completed entries
\* materialized still exists with the content the last of them gave it, except
\* the file at the failing entry's own target path when that entry failed after
\* opening it
C10_PriorEntriesRemain ==
  \A c \in Active : calls[c].pc = "failed" =>
    \A p \in DOMAIN calls[c].made :
      (p = calls[c].target /\ WriteFailed(calls[c]))
        \/ (p \in DOMAIN fs /\ fs[p] = calls[c].made[p])

C10_Witness ==
  /\ WriteFailed(calls[1])
  /\ <<SegR, SegA>> \in DOMAIN calls[1].made
  /\ calls[1].made[<<SegR, SegA>>].kind = "dir"
  /\ calls[1].target = <<SegR, SegA, SegB>>
  /\ calls[1].target \in DOMAIN calls[1].made
  /\ calls[1].made[calls[1].target].data # <<>>

\* C11: a step that records an error ends the call in the failed state, and
\* from then on no step of the call happens: the error, the entries read, the
\* running total and the filesystem stay as they are
C11_FailureIsTerminal ==
  [][\A c \in CallIds :
       /\ calls'[c].err # Nil => calls'[c].pc = "failed"
       /\ calls[c].err # Nil => (calls'[c] = calls[c] /\ (Active = {c} => fs' = fs))
       /\ (calls[c].pc = "failed") = (calls[c].err # Nil)]_vars

C11_Witness ==
  /\ calls[1].pc = "failed"
  /\ calls[1].err = <<"failed to extract file", "failed to create file">>
  /\ calls[1].nent > 1
  /\ fs # calls[1].fs0

\* the entry is none of directory, regular file, symlink or hardlink
IsOtherEntry(st) ==
  HasEntry(st) /\ st.hdr.typeflag \notin {TypeDir, TypeReg, TypeSymlink, TypeLink}

\* C14 as stated: an entry of another type never fails the call and creates
\* nothing
C14_Original ==
  \A c \in Active : IsOtherEntry(calls[c]) =>
    (calls[c].pc # "failed" /\ calls[c].emut = {})

\* C14 amended: an entry of another type fails the call with the size error
\* when its declared size exceeds MaxFileSize, else with the unsafe-path error
\* when its target escapes the root; otherwise it is skipped: the step that
\* handles it changes no file, no total and no materialized entry, raises no
\* error and returns to the loop for the next entry
C14_OtherTypeSkipped ==
  [][\A c \in CallIds :
       /\ (IsOtherEntry(calls[c]) /\ calls[c].pc = "entry" /\ calls'[c] # calls[c]) =>
            /\ calls'[c].pc = "next"
            /\ calls'[c].skipped
            /\ calls'[c].err = Nil
            /\ fs' = fs
            /\ calls'[c].totalWritten = calls[c].totalWritten
            /\ calls'[c].phys = calls[c].phys
            /\ calls'[c].made = calls[c].made
       /\ IsOtherEntry(calls'[c]) =>
            /\ calls'[c].emut = {}
            /\ calls'[c].pc =
                 IF calls'[c].hdr.size > MaxFileSize \/ Escapes(calls'[c])
                 THEN "failed" ELSE "entry"
            /\ calls'[c].pc = "failed" =>
                 calls'[c].err = IF calls'[c].hdr.size > MaxFileSize THEN ErrSize
                                 ELSE ErrUnsafe]_vars

C14_Witness ==
  /\ calls[1].skipped
  /\ calls[1].pc = "next"
  /\ calls[1].totalWritten > 0
  /\ <<SegR, SegB>> \in DOMAIN fs
  /\ fs[<<SegR, SegB>>].data # <<>>

ErrGzip == <<"failed to create gzip reader">>

ErrHeader == <<"failed to read tar header">>

\* C15: the first step of a call either accepts the gzip header or fails with
\* the gzip error, and then the filesystem is the one before the call and no
\* record was read; a tar header that cannot be decoded fails the call with
\* the header error at the point of the loop where it is read, and that step
\* changes no file and materializes nothing
C15_DecodeErrors ==
  [][\A c \in CallIds :
       /\ (calls[c].pc = "start" /\ calls'[c] # calls[c]) =>
            /\ fs' = fs
            /\ \/ calls'[c].pc = "next" /\ calls'[c].err = Nil
               \/ calls'[c].pc = "failed" /\ calls'[c].err = ErrGzip
       /\ calls'[c].err = ErrGzip =>
            /\ calls[c].pc = "start"
            /\ calls'[c].pc = "failed"
            /\ fs' = calls'[c].fs0
            /\ calls'[c].nent = 0
            /\ calls'[c].made = NoFiles
       /\ calls'[c].err = ErrHeader =>
            /\ calls[c].pc = "next"
            /\ calls'[c].pc = "failed"
            /\ fs' = fs
            /\ calls'[c].made = calls[c].made
            /\ calls'[c].emut = {}
            /\ calls'[c].totalWritten = calls[c].totalWritten]_vars

C15_Witness ==
  /\ calls[1].pc = "failed"
  /\ calls[1].err = ErrHeader
  /\ calls[1].nent > 1
  /\ <<SegR, SegA, SegB>> \in DOMAIN calls[1].made
  /\ fs # calls[1].fs0

\* C16: a call ends in success only from the loop, at the end-of-archive
\* marker, without an error and without changing a file; a call that ends in
\* success having read no record leaves the filesystem as it was; a read of
\* the loop that yields no header leaves the call in the loop, in success or
\* failed with the header error, and a nil record changes nothing but the
\* count of records
C16_EndOfArchive ==
  [][\A c \in CallIds :
       /\ (calls'[c].pc = "done" /\ calls[c].pc # "done") =>
            /\ calls[c].pc = "next"
            /\ calls'[c].err = Nil
            /\ fs' = fs
            /\ calls'[c] = [calls[c] EXCEPT !.pc = "done"]
       /\ (calls'[c].pc = "done" /\ calls'[c].nent = 0) =>
            (fs' = calls'[c].fs0 /\ calls'[c].made = NoFiles)
       /\ calls[c].pc = "done" => calls'[c] = calls[c]
       /\ (calls[c].pc = "next" /\ calls'[c] # calls[c] /\ calls'[c].hdr = NoHdr) =>
            /\ fs' = fs
            /\ \/ calls'[c].pc \in {"next", "done"} /\ calls'[c].err = Nil
               \/ calls'[c].pc = "failed" /\ calls'[c].err = ErrHeader
            /\ calls'[c].pc = "next" =>
                 calls'[c] = [calls[c] EXCEPT !.nent = calls'[c].nent]]_vars

\* a nil record, then the end of the archive
C16_Witness ==
  /\ calls[1].pc = "done"
  /\ calls[1].nent = 1
  /\ calls[1].made = NoFiles
  /\ ~calls[1].skipped
  /\ calls[1].err = Nil
  /\ fs = calls[1].fs0

ErrCreateFile == <<"failed to extract file", "failed to create file">>

\* the call failed for a reason that is not in the archive's entries: the gzip
\* header, a failure of the operating system to open or write, a content
\* shorter than declared, or the total-size limit
EnvFault(st, f) ==
  \/ st.err = ErrGzip
  \/ st.err = ErrCreateFile
       /\ OpenFile(f, st.target, permOf(st.hdr.mode, FileDefaultPerm)).ok
  \/ Len(st.err) = 3 /\ st.err[2] = "failed to write file content"

\* some path strictly above p is a regular file
FileAbove(f, p) == \E i \in 0..(Len(p) - 1) : IsFile(f, SubSeq(p, 1, i))

\* C12 as stated: every such archive is extracted with success, unless the
\* environment fails
C12_Original ==
  \A c \in Active : calls[c].pc = "failed" => EnvFault(calls[c], fs)

\* C12 amended: the call fails only for a fault of the environment or for an
\* entry that conflicts with what exists at its path (a regular file at the
\* path of a directory entry or above the path of an entry, a directory at the
\* path of a regular-file entry); a regular-file entry whose content was
\* copied has exactly the bytes read for it, as many as declared, in its file;
\* a completed entry leaves its file, its directory and the parents it created
\* on disk; between entries and at success everything the completed entries
\* materialized is on disk as the last entry at each path left it, and the
\* destination holds nothing else
C12_RoundTrip ==
  [][\A c \in CallIds : calls'[c].pc # "off" =>
       LET st == calls'[c] IN
       /\ st.pc = "failed" =>
            \/ EnvFault(st, fs')
            \/ st.hdr.typeflag = TypeDir /\ (IsFile(fs', st.target) \/ FileAbove(fs', st.target))
            \/ st.hdr.typeflag = TypeReg /\ (IsDir(fs', st.target) \/ FileAbove(fs', st.target))
       /\ st.pc = "copied" =>
            /\ IsFile(fs', st.target)
            /\ fs'[st.target].data = st.src
            /\ Len(st.src) = st.hdr.size
       /\ (calls[c].pc = "copied" /\ st.pc = "next") =>
            /\ calls[c].target \in DOMAIN st.made
            /\ st.made[calls[c].target] = fs[calls[c].target]
            /\ \A i \in 1..Len(calls[c].target) :
                 IsDir(fs', SubSeq(calls[c].target, 1, i - 1))
       /\ (calls[c].pc = "entry" /\ st.pc = "next") =>
            /\ calls[c].hdr.typeflag = TypeDir
            /\ IsDir(fs', calls[c].target)
            /\ calls[c].target \in DOMAIN st.made
       /\ st.pc \in {"next", "done"} =>
            /\ \A p \in DOMAIN st.made : p \in DOMAIN fs' /\ fs'[p] = st.made[p]
            /\ \A p \in DOMAIN fs' : p \in DOMAIN st.made \/ p \in DOMAIN st.fs0]_vars

C12_Witness ==
  /\ calls[1].pc = "done"
  /\ IsFile(fs, <<SegR, SegA, SegB>>)
  /\ fs[<<SegR, SegA, SegB>>].data = <<0, 1>>
  /\ IsDir(fs, <<SegR, SegB>>)
  /\ fs[<<SegR, SegB>>].perm = 2496 % PermModulus
  /\ fs[<<SegR, SegA>>] = DirNode(DirDefaultPerm)

IsDirEntry(st) == HasEntry(st) /\ st.hdr.typeflag = TypeDir

SubtreeSame(f, g, root) ==
  \A p \in DOMAIN f \cup DOMAIN g :
    Within(p, root) => (p \in DOMAIN f /\ p \in DOMAIN g /\ f[p] = g[p])

\* C17: with two calls in flight into roots that do not overlap, a step
\* changes the record of one call only and leaves the subtree of the other
\* call as it was; a call begins with a running total of zero; the bytes a
\* call has written are its own running total plus the bytes of its entry in
\* progress; a Write is rejected exactly when the call's own total, the bytes
\* of its entry and the chunk exceed MaxTotalSize; a copied file holds the
\* bytes its own call read; between entries and at success the subtree of a
\* call holds exactly what its own completed entries materialized
C17_CallsIndependent ==
  [][\A c \in CallIds :
       LET st == calls'[c]
           w == calls'[c].lastW
       IN /\ calls'[c] = calls[c] => SubtreeSame(fs, fs', calls[c].root)
          /\ calls'[c] # calls[c] => \A d \in CallIds \ {c} : calls'[d] = calls[d]
          /\ calls[c].pc = "start" => (calls[c].totalWritten = 0 /\ calls[c].phys = 0)
          /\ st.phys = st.totalWritten + st.tw.written
          /\ st.phys <= MaxTotalSize
          /\ w # NoWrite =>
               /\ w.total = st.totalWritten
               /\ w.rejected = (st.totalWritten + w.written + w.len > MaxTotalSize)
               /\ w.rejected = (st.err = ErrTotal)
          /\ st.pc = "copied" =>
               (IsFile(fs', st.target) /\ fs'[st.target].data = st.src)
          /\ st.pc \in {"next", "done"} =>
               \A p \in DOMAIN fs' : (Within(p, st.root) /\ p # st.root) =>
                 (p \in DOMAIN st.made /\ fs'[p] = st.made[p])]_vars

\* both calls are copying an entry, and together they have written more than
\* MaxTotalSize
C17_Witness ==
  /\ calls[1].pc = "copy"
  /\ calls[2].pc = "copy"
  /\ calls[1].tw.written = 1
  /\ calls[2].tw.written = 1
  /\ calls[1].totalWritten + calls[2].totalWritten > MaxTotalSize
  /\ ~Within(calls[1].root, calls[2].root)
  /\ ~Within(calls[2].root, calls[1].root)

\* the path field of the request resolves outside the upload directory
OutsideUpload(req) == ~Within(Abs(Join(directory, req.path)), directory)

\* C18: an upload whose path field resolves outside the upload directory, a
\* sibling directory whose name begins with the upload directory's name
\* included, is answered 403 Forbidden and creates or writes nothing, as a
\* plain upload and as a targz upload
C18_UploadOutsideForbidden ==
  \A c \in CallIds :
    (calls[c].req.handler = "upload" /\ OutsideUpload(calls[c].req)) =>
      /\ calls[c].pc = "idle"
      /\ calls[c].status = StatusForbidden
      /\ calls[c].emut = {}

\* C19: a delete request whose path field resolves outside the upload
\* directory is answered 403 Forbidden and removes nothing, and no delete
\* request removes anything outside the upload directory
C19_DeleteOutsideForbidden ==
  \A c \in CallIds :
    (calls[c].req.handler \in {"uploaderDelete", "deleteOldFilesOfDir"}
       /\ calls[c].status # StatusBadRequest) =>
      /\ OutsideUpload(calls[c].req) =>
           (calls[c].status = StatusForbidden /\ calls[c].emut = {})
      /\ \A p \in calls[c].emut : Within(p, directory)

\* C20: an upload with the targz field set, a path inside the upload directory
\* and a valid archive that is answered 201 Created has extracted the archive
\* below that path: the path is a directory and holds what the entries of the
\* archive materialized
C20_TargzSetExtracts ==
  \A c \in CallIds :
    (calls[c].req.handler = "upload" /\ calls[c].req.targz # ""
       /\ ~OutsideUpload(calls[c].req) /\ calls[c].status = StatusCreated) =>
      /\ calls[c].root = Abs(Join(directory, calls[c].req.path))
      /\ IsDir(fs, calls[c].root)
      /\ \A p \in DOMAIN calls[c].made : p \in DOMAIN fs /\ fs[p] = calls[c].made[p]

\* C28: the checks of an entry come in the order size pre-check, containment,
\* dispatch on the type, streaming total: whatever its type, an entry that
\* declares more than MaxFileSize fails with the size error, else one whose
\* target escapes fails with the unsafe-path error, else a link fails with the
\* link error; the total-size error arises only while the content of a
\* regular file that passed both checks is copied; the step that reads a
\* header and an entry rejected by these checks change no file
C28_CheckOrder ==
  [][\A c \in CallIds :
       LET st == calls'[c]
           oversize == st.hdr.size > MaxFileSize
           unsafe == ~Within(Join(st.root, st.hdr.name), st.root)
           rejected == oversize \/ unsafe \/ IsLinkEntry(st)
       IN /\ (calls[c].pc = "next" /\ calls'[c] # calls[c]) => fs' = fs
          /\ (HasEntry(st) /\ st.pc # "idle") =>
               /\ rejected =>
                    /\ st.pc \in {"entry", "failed"}
                    /\ st.pc = "entry" => (~oversize /\ ~unsafe)
                    /\ st.emut = {}
                    /\ st.tw.written = 0
                    /\ st.pc = "failed" =>
                         st.err = IF oversize THEN ErrSize
                                  ELSE IF unsafe THEN ErrUnsafe
                                  ELSE ErrLink
               /\ st.err \in {ErrSize, ErrUnsafe, ErrLink} => rejected
               /\ st.err = ErrTotal =>
                    /\ st.hdr.typeflag = TypeReg
                    /\ ~rejected
                    /\ calls[c].pc = "copy"]_vars

\* a link entry that is oversize and unsafe, after earlier entries
C28_Witness ==
  /\ calls[1].pc = "failed"
  /\ calls[1].err = ErrSize
  /\ calls[1].hdr.typeflag = TypeSymlink
  /\ calls[1].hdr.size > MaxFileSize
  /\ Escapes(calls[1])
  /\ calls[1].nent > 1
  /\ fs # calls[1].fs0

ErrPostCheck == <<"failed to extract file", "wrote more bytes than reasonable limit">>

\* C29: when the content of a regular file has been copied, the entry fails
\* exactly when the bytes written exceed twice the declared size: then the
\* target is removed and the running total stays, and otherwise the entry
\* succeeds, the file stays as written and the running total grows by the
\* bytes written; with a declared size of 0 the entry succeeds exactly when
\* nothing was written
C29_PostCheck ==
  [][\A c \in CallIds :
       (calls[c].pc = "copied" /\ calls'[c] # calls[c]) =>
         LET st == calls[c]
             over == st.tw.written > 2 * st.hdr.size
         IN /\ over =>
                 /\ calls'[c].pc = "failed"
                 /\ calls'[c].err = ErrPostCheck
                 /\ st.target \notin DOMAIN fs'
                 /\ calls'[c].totalWritten = st.totalWritten
            /\ ~over =>
                 /\ calls'[c].pc = "next"
                 /\ calls'[c].err = Nil
                 /\ fs' = fs
                 /\ Len(fs'[st.target].data) = st.tw.written
                 /\ calls'[c].totalWritten = st.totalWritten + st.tw.written
            /\ st.hdr.size = 0 => ((calls'[c].pc = "next") = (st.tw.written = 0))]_vars

\* three bytes written for a declared size of one
C29_Witness ==
  /\ calls[1].pc = "failed"
  /\ calls[1].err = ErrPostCheck
  /\ calls[1].hdr.size = 1
  /\ calls[1].tw.written = 3
  /\ calls[1].totalWritten = MaxTotalSize - MaxContent
  /\ calls[1].target \notin DOMAIN fs

ErrNotDir == <<"failed to create directory", "path exists but is not a directory">>

ErrMkdir == <<"failed to create directory", "mkdir">>

\* C30 as stated: a directory entry that fails with a regular file at its
\* target fails with the not-a-directory error, and a directory entry inside
\* the root whose target does not exist does not fail
C30_Original ==
  \A c \in Active :
    (IsDirEntry(calls[c]) /\ calls[c].pc = "failed") =>
      LET t == Join(calls[c].root, calls[c].hdr.name)
      IN /\ IsFile(fs, t) => calls[c].err = ErrNotDir
         /\ ~(t \notin DOMAIN fs /\ Within(t, calls[c].root))

\* C30 amended: a directory entry that passed the size pre-check and the
\* containment check fails with the not-a-directory error and changes nothing
\* when a regular file is at its target; when nothing is at its target it
\* creates the target with the permissions of the header and every missing
\* ancestor and changes nothing else, unless a regular file lies above the
\* target: then it fails with the mkdir error and changes nothing. A failed
\* directory entry has one of the size, unsafe-path, not-a-directory and mkdir
\* errors
C30_DirectoryEntry ==
  [][\A c \in CallIds :
       /\ (IsDirEntry(calls[c]) /\ calls[c].pc = "entry" /\ calls'[c] # calls[c]) =>
            LET st == calls[c]
                t == st.target
            IN /\ IsFile(fs, t) =>
                    (calls'[c].pc = "failed" /\ calls'[c].err = ErrNotDir /\ fs' = fs)
               /\ (t \notin DOMAIN fs /\ FileAboveIn(fs, t)) =>
                    (calls'[c].pc = "failed" /\ calls'[c].err = ErrMkdir /\ fs' = fs)
               /\ (t \notin DOMAIN fs /\ ~FileAboveIn(fs, t)) =>
                    /\ calls'[c].pc = "next"
                    /\ calls'[c].err = Nil
                    /\ \A i \in 0..Len(t) : IsDir(fs', SubSeq(t, 1, i))
                    /\ fs'[t].perm = Umasked(permOf(st.hdr.mode, DirDefaultPerm), st.umask)
                    /\ \A p \in DOMAIN fs : p \in DOMAIN fs' /\ fs'[p] = fs[p]
                    /\ \A p \in DOMAIN fs' : p \in DOMAIN fs \/ Within(t, p)
       /\ (IsDirEntry(calls'[c]) /\ calls'[c].pc = "failed") =>
            calls'[c].err =
              IF calls'[c].hdr.size > MaxFileSize THEN ErrSize
              ELSE IF Escapes(calls'[c]) THEN ErrUnsafe
              ELSE IF IsFile(fs', calls'[c].target) THEN ErrNotDir
              ELSE ErrMkdir]_vars

\* a directory entry at the path of a file that an earlier entry wrote
C30_Witness ==
  /\ calls[1].pc = "failed"
  /\ calls[1].err = ErrNotDir
  /\ calls[1].target = <<SegR, SegB>>
  /\ calls[1].target \in DOMAIN calls[1].made
  /\ IsFile(fs, calls[1].target)
  /\ fs[calls[1].target] = calls[1].made[calls[1].target]

\* C21: an upload with the targz field set whose file is no gzip stream is
\* not answered 201 Created
C21_InvalidArchiveRejected ==
  \A c \in CallIds :
    (calls[c].req.handler = "upload" /\ calls[c].req.targz # ""
       /\ ~IsGzip(calls[c].req.file) /\ calls[c].pc = "idle") =>
      calls[c].status # StatusCreated

\* the file that is no gzip stream, sent with targz=true to a path inside the
\* upload directory, is answered with the error of the extraction
C21_Witness ==
  /\ calls[1].pc = "idle"
  /\ calls[1].req.handler = "upload"
  /\ calls[1].req.targz = "true"
  /\ ~IsGzip(calls[1].req.file)
  /\ calls[1].root = <<SegR, SegB>>
  /\ calls[1].status = StatusInternalServerError

\* C24 as stated: a plain upload to a path inside the upload directory is
\* answered 201 Created and the file at the path holds the uploaded bytes
C24_Original ==
  \A c \in CallIds :
    (calls[c].pc = "idle" /\ calls[c].req.handler = "upload"
       /\ calls[c].req.targz = "" /\ ~OutsideUpload(calls[c].req)) =>
      LET t == Join(directory, calls[c].req.path)
      IN /\ calls[c].status = StatusCreated
         /\ IsFile(fs, t)
         /\ fs[t].data = calls[c].req.file

\* C24 amended: a plain upload to a path inside the upload directory that is
\* no existing directory and has no regular file above it is answered 201
\* Created, stores exactly the uploaded bytes at the path in place of any
\* previous content, creates the missing parent directories and changes
\* nothing else; on a path that is a directory or has a regular file above it
\* the handler returns an error and changes nothing
C24_PlainUpload ==
  [][\A c \in CallIds :
       (calls[c].pc = "idle" /\ calls'[c].pc = "idle"
          /\ calls'[c].req.handler = "upload" /\ calls'[c].req.targz = ""
          /\ ~OutsideUpload(calls'[c].req)) =>
         LET req == calls'[c].req
             t == Join(directory, req.path)
         IN IF IsDir(fs, t) \/ FileAboveIn(fs, t)
              THEN /\ calls'[c].status = StatusInternalServerError
                   /\ fs' = fs
              ELSE /\ calls'[c].status = StatusCreated
                   /\ IsFile(fs', t)
                   /\ fs'[t].data = req.file
                   /\ \A i \in 0..(Len(t) - 1) : IsDir(fs', SubSeq(t, 1, i))
                   /\ \A p \in DOMAIN fs \ {t} : p \in DOMAIN fs' /\ fs'[p] = fs[p]
                   /\ \A p \in DOMAIN fs' : p \in DOMAIN fs \/ Within(t, p)]_vars

\* the upload of two bytes to b/a has created the directory b and the file
C24_Witness ==
  /\ calls[1].pc = "idle"
  /\ calls[1].req.handler = "upload"
  /\ calls[1].req.targz = ""
  /\ calls[1].req.path = <<SegB, SegA>>
  /\ calls[1].req.file = <<0, 1>>
  /\ calls[1].status = StatusCreated
  /\ <<SegR, SegB>> \in calls[1].emut
  /\ fs[<<SegR, SegB, SegA>>].data = <<0, 1>>

\* C25: a delete request for a path in the upload directory at which a file
\* or a directory exists is answered 202 Accepted and removes it with
\* everything below it and nothing else; one for a path at which nothing
\* exists is answered 404 Not Found and changes nothing
C25_Delete ==
  [][\A c \in CallIds :
       (calls[c].pc = "idle" /\ calls'[c].pc = "idle"
          /\ calls'[c].req.handler = "uploaderDelete"
          /\ ~OutsideUpload(calls'[c].req)) =>
         LET t == Join(directory, calls'[c].req.path)
         IN IF t \in DOMAIN fs
              THEN /\ calls'[c].status = StatusAccepted
                   /\ DOMAIN fs' = {p \in DOMAIN fs : ~Within(p, t)}
                   /\ \A p \in DOMAIN fs' : fs'[p] = fs[p]
              ELSE /\ calls'[c].status = StatusNotFound
                   /\ fs' = fs]_vars

\* the directory a and the file a/a that an archive upload put below it have
\* been removed by one delete request
C25_Witness ==
  /\ calls[1].pc = "idle"
  /\ calls[1].req.handler = "uploaderDelete"
  /\ calls[1].req.path = <<SegA>>
  /\ calls[1].status = StatusAccepted
  /\ calls[1].emut = {<<SegR, SegA>>, <<SegR, SegA, SegA>>}
  /\ <<SegR, SegA>> \notin DOMAIN fs

\* the regular files directly in dir that are more than days x 24 hours old
OldFilesIn(f, dir, days, now) ==
  { q \in DOMAIN f :
      q # dir /\ Dir(q) = dir /\ IsFile(f, q) /\ now - f[q].mtime > days * 24 }

\* C26: a delete-old request without the recursive field, for an existing
\* directory D inside the upload directory and days N, is answered 202
\* Accepted and removes exactly the regular files directly in D whose
\* modification time lies more than N x 24 hours in the past
C26_ExactlyOldFiles ==
  [][\A c \in CallIds :
       (calls[c].pc = "idle" /\ calls'[c].pc = "idle"
          /\ calls'[c].req.handler = "deleteOldFilesOfDir"
          /\ calls'[c].req.recursive = ""
          /\ ~OutsideUpload(calls'[c].req)
          /\ IsDir(fs, Join(directory, calls'[c].req.path))) =>
         LET req == calls'[c].req
             old == OldFilesIn(fs, Join(directory, req.path), req.days, req.now)
         IN /\ calls'[c].status = StatusAccepted
            /\ DOMAIN fs' = DOMAIN fs \ old
            /\ \A p \in DOMAIN fs' : fs'[p] = fs[p]]_vars

\* with days=1 the file a, 50 hours old, has been removed and the file rx,
\* exactly 24 hours old, is in place
C26_Witness ==
  /\ calls[1].pc = "idle"
  /\ calls[1].req.handler = "deleteOldFilesOfDir"
  /\ calls[1].req.path = <<>>
  /\ calls[1].req.days = 1
  /\ calls[1].req.now = 50
  /\ calls[1].status = StatusAccepted
  /\ calls[1].emut = {<<SegR, SegA>>}
  /\ IsFile(fs, <<SegR, SegRX>>)
  /\ fs[<<SegR, SegRX>>].mtime = 26

\* C27: after a delete-old request with recursive=true for a directory D that
\* was answered 202 Accepted, no regular file older than the given number of
\* days is left in a subdirectory of D
C27_RecursiveDeletes ==
  \A c \in CallIds :
    (calls[c].pc = "idle" /\ calls[c].req.handler = "deleteOldFilesOfDir"
       /\ calls[c].req.recursive = "true" /\ calls[c].status = StatusAccepted) =>
      \A q \in DOMAIN fs :
        (Within(q, Join(directory, calls[c].req.path))
           /\ Dir(q) # Join(directory, calls[c].req.path)
           /\ IsFile(fs, q))
          => ~(calls[c].req.now - fs[q].mtime > calls[c].req.days * 24)

\* with recursive=true the old and empty directory b has been removed
C27_Witness ==
  /\ calls[1].pc = "idle"
  /\ calls[1].req.handler = "deleteOldFilesOfDir"
  /\ calls[1].req.recursive = "true"
  /\ calls[1].req.path = <<>>
  /\ calls[1].req.days = 2
  /\ calls[1].status = StatusAccepted
  /\ <<SegR, SegB>> \in calls[1].emut

\* the index of the first colon of a text that has one
FirstColon(s) == CHOOSE k \in 1..Len(s) : s[k] = ":" /\ \A j \in 1..(k - 1) : s[j] # ":"

\* the header carries the user name before the first colon of the configured
\* credentials and the password after it
Authorized(auth, configured) ==
  /\ \E k \in 1..Len(auth) : auth[k] = ":"
  /\ SubSeq(auth, 1, FirstColon(auth) - 1) = SubSeq(configured, 1, FirstColon(configured) - 1)
  /\ SubSeq(auth, FirstColon(auth) + 1, Len(auth))
       = SubSeq(configured, FirstColon(configured) + 1, Len(configured))

\* C22 as stated: with the credentials set, a request that reached its
\* handler, for a path other than /health, with the method POST or DELETE or
\* for the path /upload or /delete, carried the configured credentials
C22_Original ==
  \A c \in CallIds :
    (calls[c].pc = "handle" /\ calls[c].req.url # "health"
       /\ (calls[c].req.method \in {"POST", "DELETE"}
             \/ calls[c].req.url \in {"upload", "delete"})) =>
      Authorized(calls[c].req.auth, Credentials)

\* C22 amended: with the credentials set, a POST or DELETE request for a path
\* other than /health reaches its handler when it carries the configured user
\* name and password, split at the first colon, and is otherwise answered 401
\* with the filesystem unchanged; a GET or HEAD request for any path, /upload
\* and /delete included, and any request for /health reach their handlers
\* without credentials; the filesystem changes only in the handler of a POST
\* or DELETE request that carried the credentials
C22_Auth ==
  [][\A c \in CallIds :
       /\ (calls[c].pc = "routed" /\ calls'[c] # calls[c]) =>
            LET req == calls[c].req
            IN IF req.url # "health" /\ req.method \in {"POST", "DELETE"}
                    /\ ~Authorized(req.auth, Credentials)
                 THEN /\ calls'[c].pc = "idle"
                      /\ calls'[c].status = StatusUnauthorized
                      /\ fs' = fs
                 ELSE /\ calls'[c] = [calls[c] EXCEPT !.pc = "handle"]
                      /\ fs' = fs
       /\ (c = 1 /\ fs' # fs) =>
            /\ calls[c].pc = "handle"
            /\ calls[c].req.method \in {"POST", "DELETE"}
            /\ Authorized(calls[c].req.auth, Credentials)]_vars

\* a POST /upload that carried u:p, the password up to its second colon only,
\* has been answered 401
C22_Witness ==
  /\ calls[1].pc = "idle"
  /\ calls[1].status = StatusUnauthorized
  /\ calls[1].req.method = "POST"
  /\ calls[1].req.url = "upload"
  /\ calls[1].req.auth = <<"u", ":", "p">>

\* C23: without UPLOADER_UPLOAD_CREDENTIALS a POST or DELETE request for
\* /upload or /delete reaches its handler only with the credentials
\* username:password
C23_DefaultCredentials ==
  \A c \in CallIds :
    (calls[c].pc = "handle"
       /\ calls[c].req.route.handler \in {"upload", "uploaderDelete", "deleteOldFilesOfDir"}) =>
      calls[c].req.auth = <<"username", ":", "password">>

\* C31: the running total of a call is 0 before the first entry, never
\* decreases, and changes only in the step that completes a regular-file
\* entry, where it grows by the number of bytes written for that entry;
\* directory entries, skipped entries and failing entries leave it as it is,
\* whatever size their headers declare
C31_RunningTotal ==
  [][\A c \in CallIds :
       /\ calls'[c].nent = 0 => calls'[c].totalWritten = 0
       /\ calls'[c].totalWritten >= calls[c].totalWritten
       /\ (calls[c].pc = "copied" /\ calls'[c].pc = "next") =>
            calls'[c].totalWritten = calls[c].totalWritten + calls[c].tw.written
       /\ calls'[c].totalWritten # calls[c].totalWritten =>
            /\ calls[c].pc = "copied"
            /\ calls'[c].pc = "next"
            /\ calls[c].hdr.typeflag = TypeReg
            /\ calls[c].tw.written = Len(calls[c].src)
            /\ calls'[c].totalWritten - calls[c].totalWritten = calls[c].tw.written]_vars

\* an entry failed after one of its two bytes was written, and the total still
\* holds the two bytes of the file completed before it
C31_Witness ==
  /\ WriteFailed(calls[1])
  /\ calls[1].hdr.size = 2
  /\ calls[1].tw.written = 1
  /\ calls[1].totalWritten = 2
  /\ calls[1].phys = 3

\* C32 as stated: a directory created for a directory entry has the mode of
\* the header masked to the permission bits, or 0755 when that is zero; a file
\* created for a regular-file entry has the masked mode, or 0644 when that is
\* zero; the parents created for a file have 0755
C32_Original ==
  [][\A c \in CallIds :
       (calls[c].pc = "entry" /\ calls'[c].pc \in {"next", "copy"}) =>
         LET st == calls[c]
             t == st.target
         IN \A p \in DOMAIN fs' \ DOMAIN fs :
              fs'[p].perm =
                IF st.hdr.typeflag = TypeDir
                  THEN (IF p = t THEN permOf(st.hdr.mode, DirDefaultPerm) ELSE fs'[p].perm)
                ELSE IF p = t THEN permOf(st.hdr.mode, FileDefaultPerm)
                ELSE DirDefaultPerm]_vars

\* C32 amended: what an entry creates has the requested permissions less the
\* bits of the umask of the process. Requested are, for the directory of a
\* directory entry and the ancestors created with it, the mode of the header
\* masked to the permission bits, or 0755 when that is zero; for the file of
\* a regular-file entry the masked mode, or 0644 when that is zero; for the
\* parents created for a file 0755. Nothing in the filesystem carries a bit
\* outside the permission mask
C32_Permissions ==
  [][\A c \in CallIds :
       /\ (calls[c].pc = "entry" /\ calls'[c].pc \in {"next", "copy"}) =>
            LET st == calls[c]
                t == st.target
            IN \A p \in DOMAIN fs' \ DOMAIN fs :
                 fs'[p].perm =
                   Umasked(IF st.hdr.typeflag = TypeDir
                             THEN (IF st.hdr.mode % PermModulus = 0 THEN DirDefaultPerm
                                   ELSE st.hdr.mode % PermModulus)
                           ELSE IF p = t
                             THEN (IF st.hdr.mode % PermModulus = 0 THEN FileDefaultPerm
                                   ELSE st.hdr.mode % PermModulus)
                           ELSE DirDefaultPerm,
                           st.umask)
       /\ \A p \in DOMAIN fs' : fs'[p].perm \in 0..(PermModulus - 1)]_vars

\* under the umask 022 the file b/a with the mode 04777 in its header exists
\* with 0755 and its parent b with 0755, and the directory a/b with the mode
\* 0666 in its header exists with 0644 like the directory a created with it
C32_Witness ==
  /\ calls[1].umask = 18
  /\ calls[1].pc = "next"
  /\ IsFile(fs, <<SegR, SegB, SegA>>)
  /\ fs[<<SegR, SegB, SegA>>].perm = 493
  /\ fs[<<SegR, SegB>>].perm = 493
  /\ IsDir(fs, <<SegR, SegA, SegB>>)
  /\ fs[<<SegR, SegA, SegB>>].perm = 420
  /\ fs[<<SegR, SegA>>].perm = 420

\* the field is the decimal notation of a number
IsNumber(field) ==
  /\ field # <<>>
  /\ \A i \in 1..Len(field) : field[i] \in {"0", "1", "2", "3", "4", "5", "6", "7", "8", "9"}

\* C33: a delete-old request whose days field is no number, for an existing
\* directory inside the upload directory and with a recursive field that
\* parses, is processed with days = 0 and answered 202 Accepted: every
\* regular file directly in the directory that was modified before the time
\* of the request is removed, and every file not modified before it stays
C33_InvalidDaysIsZero ==
  [][\A c \in CallIds :
       (calls[c].pc = "idle" /\ calls'[c].pc = "idle"
          /\ calls'[c].req.handler = "deleteOldFilesOfDir"
          /\ ~IsNumber(calls'[c].req.daysField)
          /\ calls'[c].req.recursive \in {"", "true"}
          /\ ~OutsideUpload(calls'[c].req)
          /\ IsDir(fs, Join(directory, calls'[c].req.path))) =>
         LET req == calls'[c].req
             D == Join(directory, req.path)
         IN /\ calls'[c].status = StatusAccepted
            /\ req.days = 0
            /\ \A q \in DOMAIN fs :
                 (q # D /\ Dir(q) = D /\ IsFile(fs, q)) =>
                   (q \in DOMAIN fs') = ~(fs[q].mtime < req.now)
            /\ \A q \in DOMAIN fs' : q \in DOMAIN fs /\ fs'[q] = fs[q]]_vars

\* with the days field 1x the file a has been removed and the file rx,
\* modified at the time of the request, is in place
C33_Witness ==
  /\ calls[1].pc = "idle"
  /\ calls[1].req.handler = "deleteOldFilesOfDir"
  /\ calls[1].req.daysField = <<"1", "x">>
  /\ calls[1].req.path = <<>>
  /\ calls[1].req.now = 50
  /\ calls[1].status = StatusAccepted
  /\ calls[1].emut = {<<SegR, SegA>>}
  /\ IsFile(fs, <<SegR, SegRX>>)
  /\ fs[<<SegR, SegRX>>].mtime = 50

\* C34: the step in which a regular-file entry fails while or after its
\* content is written removes the file at the target of the entry and changes
\* nothing else; the target is absent after it also when a file was there
\* before the call or an earlier entry of the archive had completed it
C34_CleanupRemovesTarget ==
  [][\A c \in CallIds :
       (calls[c].pc \in {"copy", "copied"} /\ calls'[c].pc = "failed") =>
         LET t == calls[c].target
         IN /\ WriteFailed(calls'[c])
            /\ IsFile(fs, t)
            /\ DOMAIN fs' = DOMAIN fs \ {t}
            /\ \A p \in DOMAIN fs' : fs'[p] = fs[p]
            /\ (t \in DOMAIN calls[c].fs0 \/ t \in DOMAIN calls[c].made) =>
                 t \notin DOMAIN fs']_vars

\* the first entry of a call, at the path of a file that was there before the
\* call, has failed after one byte: the path is absent
C34_Witness ==
  /\ WriteFailed(calls[1])
  /\ calls[1].nent = 1
  /\ calls[1].tw.written = 1
  /\ IsFile(calls[1].fs0, calls[1].target)
  /\ calls[1].fs0[calls[1].target].data = <<1, 1>>
  /\ calls[1].target \notin DOMAIN fs

\* C35: the step that completes a regular-file entry leaves at the target
\* exactly the bytes read for this entry, also when an earlier entry had
\* completed a longer file there, and adds their number to the running total;
\* when the call has succeeded every file an entry completed holds the
\* content its last entry gave it
C35_LastEntryWins ==
  [][\A c \in CallIds :
       /\ (calls[c].pc = "copied" /\ calls'[c].pc = "next") =>
            LET t == calls[c].target
            IN /\ IsFile(fs', t)
               /\ fs'[t].data = calls[c].src
               /\ calls'[c].made[t] = fs'[t]
               /\ calls'[c].totalWritten = calls[c].totalWritten + Len(calls[c].src)
       /\ calls'[c].pc = "done" =>
            \A p \in DOMAIN calls'[c].made :
              calls'[c].made[p].kind = "file" =>
                (IsFile(fs', p) /\ fs'[p].data = calls'[c].made[p].data)]_vars

\* entries for the file a only, the last of them of one byte: the call has
\* succeeded, the file holds the one byte and the total is three
C35_Witness ==
  /\ calls[1].pc = "done"
  /\ calls[1].nent = 2
  /\ DOMAIN calls[1].made = {<<SegR, SegA>>}
  /\ fs[<<SegR, SegA>>].data = <<0>>
  /\ calls[1].totalWritten = 3

ErrParentDir == <<"failed to extract file", "failed to create parent directory">>

\* C36 as stated: a regular-file entry with a target inside the root that has
\* failed while its target is a directory or lies below a regular file has
\* failed with the error of creating the file or its parent directory
C36_Original ==
  \A c \in Active :
    LET t == Join(calls[c].root, calls[c].hdr.name)
    IN (calls[c].pc = "failed" /\ HasEntry(calls[c]) /\ calls[c].hdr.typeflag = TypeReg
          /\ Within(t, calls[c].root) /\ (IsDir(fs, t) \/ FileAboveIn(fs, t))) =>
         calls[c].err \in {ErrParentDir, <<"failed to extract file", "failed to create file">>}

\* C36 amended: a regular-file entry that passed the size pre-check and the
\* containment check fails with the create-file error when its target is an
\* existing directory, the root included, and with the parent-directory error
\* when a regular file lies above its target; the step changes nothing in the
\* filesystem, so no removal has run and the directory or file is in place
\* with its contents
C36_FileOnDirectory ==
  [][\A c \in CallIds :
       (calls[c].pc = "entry" /\ calls[c].hdr.typeflag = TypeReg
          /\ calls'[c] # calls[c]) =>
         LET t == calls[c].target
         IN /\ IsDir(fs, t) =>
                 /\ calls'[c].pc = "failed"
                 /\ calls'[c].err = <<"failed to extract file", "failed to create file">>
                 /\ fs' = fs
            /\ FileAboveIn(fs, t) =>
                 /\ calls'[c].pc = "failed"
                 /\ calls'[c].err = ErrParentDir
                 /\ fs' = fs]_vars

\* a regular-file entry named . has failed on the root, after an earlier
\* entry, and the filesystem holds what that entry made
C36_Witness ==
  /\ calls[1].pc = "failed"
  /\ calls[1].hdr.typeflag = TypeReg
  /\ calls[1].target = calls[1].root
  /\ calls[1].err = <<"failed to extract file", "failed to create file">>
  /\ calls[1].nent = 2
  /\ IsFile(fs, <<SegR, SegB>>)
  /\ IsDir(fs, calls[1].root)

(***************************************************************************)
(* extractArchive over a finite archive: the stream handed to tr is a      *)
(* finite sequence of records, each call of tr.Next takes the next one     *)
(***************************************************************************)
MaxArchive == 2

\* the entries a finite archive is made of
FiniteHeaders ==
  { h \in Headers :
      /\ h.mode = 0
      /\ \/ h.name = <<SegA>> /\ h.typeflag = TypeReg /\ h.size \in {0, MaxFileSize, MaxSize}
         \/ h.name = <<SegA>> /\ h.typeflag \in {TypeDir, TypeSymlink, TypeFifo} /\ h.size = 0
         \/ h.name = <<SegUp, SegRX>> /\ h.typeflag = TypeReg /\ h.size = 0 }

\* a record of the stream: an entry, or a record without a header
FiniteRecords == FiniteHeaders \cup {NoHdr}

Archives == UNION { [1..n -> FiniteRecords] : n \in 0..MaxArchive }

\* a reader that hands out the same record again at every call
ReadHeaderNoConsume(c) ==
  /\ calls[c].pc = "next"
  /\ calls[c].arch # <<>>
  /\ LET st == calls[c]
         rec == Head(st.arch)
     IN calls' = [calls EXCEPT ![c] =
          IF rec = NoHdr THEN [st EXCEPT !.nent = IF @ < 2 THEN @ + 1 ELSE @]
          ELSE checkHeader(st, rec)]
  /\ UNCHANGED fs

\* tr.Next returns the next record of the stream: a nil header is skipped
\* by the loop, an entry goes through the checks of the iteration
ReadHeader(c) ==
  /\ calls[c].pc = "next"
  /\ calls[c].arch # <<>>
  /\ LET st == calls[c]
         rec == Head(st.arch)
         rest == Tail(st.arch)
     IN calls' = [calls EXCEPT ![c] =
          IF rec = NoHdr
            THEN [st EXCEPT !.nent = IF @ < 2 THEN @ + 1 ELSE @, !.arch = rest]
          ELSE [checkHeader(st, rec) EXCEPT !.arch = rest]]
  /\ UNCHANGED fs

\* tr.Next returns io.EOF once every record has been handed out
EndOfArchive(c) ==
  /\ calls[c].arch = <<>>
  /\ NextEOF(c)

InitFinite ==
  /\ fs \in InitFS
  /\ \E a \in Archives :
       calls = [c \in CallIds |->
                  IF c = 1 THEN [Fresh(Root, fs) EXCEPT !.arch = a] ELSE Off]

NextFinite ==
  \E c \in CallIds :
    \/ Setup(c)
    \/ ReadHeader(c)
    \/ EndOfArchive(c)
    \/ NextError(c)
    \/ HandleDirectory(c)
    \/ RejectLink(c)
    \/ SkipUnsupported(c)
    \/ OpenRegularFile(c)
    \/ CopyChunk(c)
    \/ FinishFile(c)

\* the call runs on one goroutine from its first statement to its return:
\* a step that can be taken is taken
SpecFinite == InitFinite /\ [][NextFinite]_vars /\ WF_vars(NextFinite)

\* C37: for every finite archive the extraction call terminates, with
\* success only when the whole archive was consumed and no entry failed,
\* and with an error otherwise
C37_Terminates ==
  /\ [](\A c \in Active :
          /\ calls[c].pc = "done" => (calls[c].arch = <<>> /\ calls[c].err = Nil)
          /\ calls[c].pc = "failed" => calls[c].err # Nil)
  /\ [][\A c \in Active :
          /\ calls[c].pc = "next" => Len(calls'[c].arch) <= Len(calls[c].arch)
          /\ (calls[c].pc = "next" /\ calls'[c].pc \notin {"done", "failed"})
               => Len(calls'[c].arch) = Len(calls[c].arch) - 1
          /\ calls[c].pc # "next" => calls'[c].arch = calls[c].arch]_vars
  /\ <>(\A c \in Active : calls[c].pc \in {"done", "failed"})

\* an archive of two records consumed to its end, the last one a file
C37_Witness ==
  /\ calls[1].pc = "done"
  /\ calls[1].arch = <<>>
  /\ calls[1].nent = 2
  /\ IsFile(fs, <<SegR, SegA>>)
  /\ calls[1].totalWritten = MaxFileSize

\* C39: a delete request whose path resolves to the upload directory itself
\* (the empty path) is not refused: while the directory exists it is answered
\* 202 Accepted and the directory is removed with everything in it
C39_DeletesUploadRoot ==
  [][\A c \in CallIds :
       (calls[c].pc = "idle" /\ calls'[c].pc = "idle"
          /\ calls'[c].req.handler = "uploaderDelete"
          /\ Clean(Join(directory, calls'[c].req.path)) = directory
          /\ directory \in DOMAIN fs) =>
         /\ calls'[c].status = StatusAccepted
         /\ directory \notin DOMAIN fs'
         /\ \A p \in DOMAIN fs : p \in DOMAIN fs' <=> ~Within(p, directory)
         /\ calls'[c].emut = {p \in DOMAIN fs : Within(p, directory)}]_vars

\* the upload directory, holding the file a, is gone after a delete request
\* with the empty path
C39_Witness ==
  /\ calls[1].pc = "idle"
  /\ calls[1].req.handler = "uploaderDelete"
  /\ calls[1].req.path = <<>>
  /\ calls[1].status = StatusAccepted
  /\ <<SegR, SegA>> \in calls[1].emut
  /\ directory \notin DOMAIN fs
  /\ \A p \in DOMAIN fs : ~Within(p, directory)

(***************************************************************************)
(* two calls of UntarGz into one destination, as two uploads with the same *)
(* path field start them                                                   *)
(***************************************************************************)
InitShared ==
  /\ fs = BaseFS
  /\ calls = [c \in CallIds |-> Fresh(Root, fs)]

NextShared ==
  \E c \in CallIds :
    \/ Setup(c)
    \/ NextEOF(c)
    \/ NextConcHeader(c)
    \/ OpenRegularFile(c)
    \/ CopyChunk(c)
    \/ FinishFile(c)

SpecShared == InitShared /\ [][NextShared]_vars

\* C38: with two calls in flight into one destination nothing keeps the
\* steps of one call away from the paths of the other: a copy that fails
\* removes its target whatever the other call has done at that path, and leaves
\* the record of the other call as it was; a call completes its entry and
\* returns success without looking at the paths it has completed
C38_SharedDestination ==
  [][\A c \in CallIds : \A d \in CallIds \ {c} :
       /\ (calls[c].pc = "copy" /\ WriteFailed(calls'[c])) =>
            /\ calls[c].target \notin DOMAIN fs'
            /\ \A p \in DOMAIN fs' : fs'[p] = fs[p]
            /\ calls'[d] = calls[d]
       /\ (calls[c].pc = "copied" /\ calls'[c].pc = "next") =>
            /\ calls'[c].err = Nil
            /\ calls'[c].totalWritten = calls[c].totalWritten + calls[c].tw.written
            /\ fs' = fs
       /\ (calls[c].pc = "next" /\ calls'[c].pc = "done") =>
            /\ calls'[c].err = Nil
            /\ fs' = fs]_vars

\* call 1 completed the file a and returned success, call 2 failed while
\* writing its own entry a and removed the file: a is not there
C38_Witness ==
  /\ calls[1].pc = "done"
  /\ calls[1].err = Nil
  /\ calls[1].root = calls[2].root
  /\ <<SegR, SegA>> \in DOMAIN calls[1].made
  /\ Len(calls[1].made[<<SegR, SegA>>].data) = MaxFileSize
  /\ WriteFailed(calls[2])
  /\ calls[2].target = <<SegR, SegA>>
  /\ <<SegR, SegA>> \notin DOMAIN fs

====
